---- MODULE Spec2Model ----
(***************************************************************************)
(* Model of the irontelemetry-js client: the bounded breadcrumb buffer     *)
(* (breadcrumbs.ts), the persisted offline queue (queue.ts), the transport *)
(* (transport.ts), the journey and step state machine (journey.ts) and the *)
(* capture / drain paths of TelemetryClient (client.ts).                   *)
(*                                                                         *)
(* The specifications share the variables:                                 *)
(*   SpecQueue     the OfflineQueue class driven through its methods       *)
(*   SpecCrumbs    the BreadcrumbManager class                             *)
(*   Spec          one TelemetryClient with the default sampleRate and     *)
(*                 beforeSend: captures, drains and close interleaved at   *)
(*                 their await points                                      *)
(*   SpecCapture   the capture path of a TelemetryClient under every       *)
(*                 sampleRate, beforeSend and queueing option              *)
(*   SpecTransport Transport.send under every answer of the collector      *)
(*   SpecJourney   journeys, steps and their scopes (journey.ts)           *)
(*   SpecSnapshot  events built while breadcrumbs and journeys change      *)
(*   SpecLive      a client that is never closed, with fairness, whose     *)
(*                 collector may become reachable for good                 *)
(*   SpecContext   the client's user, tags and extra set between events    *)
(*   SpecUser      the client's user against the user of its journey       *)
(*   SpecClientUser  the client's user set and cleared around a journey    *)
(*                 that only ever holds the copy startJourney made         *)
(*   SpecStale     two journeys started one after the other and the scope  *)
(*                 of the first disposed after the second has started      *)
(*   SpecOverlap   a timer tick or a flush() arriving while an earlier     *)
(*                 drain is suspended at an await                          *)
(*   SpecTrack     trackStep() of the module-level API, with and without   *)
(*                 an initialized global client                            *)
(*                                                                         *)
(* Event ids stand for the strings of generateEventId(), which are taken   *)
(* to be distinct.  Fields named "history" record what happened and are    *)
(* read by no action.                                                      *)
(***************************************************************************)
EXTENDS Integers, Sequences, FiniteSets, TLC

(***************************************************************************)
(* Bounds of the model.                                                    *)
(***************************************************************************)
\* largest maxOfflineQueueSize explored (capacities 0..MaxCap)
MaxCap == 2
\* longest array found in the persisted store at construction
MaxStored == 2
\* number of enqueue calls explored on a bare OfflineQueue
MaxEnq == 4
\* largest maxBreadcrumbs explored (capacities 0..MaxCrumbCap)
MaxCrumbCap == 2
\* number of add/addBreadcrumb calls explored
MaxAdds == 4
\* number of capture calls explored on a client
MaxEvents == 1
\* number of processQueue invocations explored (they may overlap)
MaxDrains == 1
\* resolution of the unit interval: rate and draw are multiples of 1/RateScale
RateScale == 2
\* number of send calls explored on a bare Transport
MaxExchanges == 2
\* number of startJourney calls explored on a client
MaxJourneys == 1
\* number of startStep calls explored, over all journeys
MaxSteps == 2
\* number of events built while journeys and breadcrumbs go on changing
MaxBuilt == 1

VARIABLES
    \* OfflineQueue (queue.ts) and its localStorage slot
    maxSize,        \* OfflineQueue.maxSize
    queue,          \* OfflineQueue.queue, a sequence of events
    store,          \* localStorage[STORAGE_KEY]
    storageMode,    \* "ok" | "unavailable" (no localStorage) | "writefails"
    nextId,         \* stands for generateEventId(): the next fresh event id
    enqLog,         \* history: events passed to enqueue since construction
    onlyEnq,        \* history: queue was loaded empty and only enqueue ran
    \* BreadcrumbManager (breadcrumbs.ts)
    maxBreadcrumbs, \* BreadcrumbManager.maxBreadcrumbs
    breadcrumbs,    \* BreadcrumbManager.breadcrumbs
    added,          \* history: breadcrumbs added since the last clear
    nAdds,          \* history: number of add calls so far
    \* TelemetryClient (client.ts)
    sampleRate,     \* options.sampleRate after resolveOptions, in 1/RateScale
    hookKind,       \* options.beforeSend: "default" (() => true) or "custom"
    queueEnabled,   \* this.queue !== null
    timerOn,        \* this.flushInterval is armed
    captures,       \* the capture calls, by call number
    drains,         \* the processQueue invocations, by call number
    closed,         \* history: close() has been called
    tickedClosed,   \* history: the timer callback ran after close() returned
    \* Transport (transport.ts)
    exchanges,      \* history: the send calls made on a bare Transport
    collector,      \* the collector and the network: "any" (answers in every
                    \* way), or from some point on "accepting" (reachable, every
                    \* event answered 2xx) or "acceptingWithBody" (and every
                    \* answer carries a JSON object)
    \* Journey, Step and their scopes (journey.ts), as held by a client
    journeys,       \* the Journey objects created by startJourney, by number
    currentJourney, \* this.currentJourney: a journey number, 0 for undefined
    built,          \* the events createEvent has built, by number
    \* ambient context of a TelemetryClient (client.ts)
    userObjects,    \* the User objects allocated so far ({ id, email, data })
    user,           \* this.user: a position in userObjects, 0 for undefined
    tags,           \* this.tags
    extra,          \* this.extra
    \* the module-level API (index.ts)
    globalClient,   \* globalClient !== null
    tracks          \* the trackStep / trackStepAsync calls, by call number

queueVars  == <<maxSize, queue, store, storageMode, nextId, enqLog, onlyEnq>>
crumbVars  == <<maxBreadcrumbs, breadcrumbs, added, nAdds>>
clientVars == <<sampleRate, hookKind, queueEnabled, timerOn, captures, drains,
                closed, tickedClosed>>
transportVars == <<exchanges, collector>>
journeyVars == <<journeys, currentJourney, built>>
contextVars == <<userObjects, user, tags, extra>>
trackVars == <<globalClient, tracks>>
vars == <<maxSize, queue, store, storageMode, nextId, enqLog, onlyEnq,
          maxBreadcrumbs, breadcrumbs, added, nAdds,
          sampleRate, hookKind, queueEnabled, timerOn, captures, drains,
          closed, tickedClosed, exchanges, collector, journeys, currentJourney, built,
          userObjects, user, tags, extra, globalClient, tracks>>

(***************************************************************************)
(* Helpers.                                                                *)
(***************************************************************************)
Min(a, b) == IF a < b THEN a ELSE b
Max(a, b) == IF a > b THEN a ELSE b

\* the last n elements of s (all of s when n >= Len(s))
LastN(s, n) == SubSeq(s, Len(s) - Min(n, Len(s)) + 1, Len(s))

\* Array.prototype.slice(start) with one argument
Slice(s, start) ==
    LET k == IF start < 0 THEN Max(Len(s) + start, 0) ELSE Min(start, Len(s))
    IN  SubSeq(s, k + 1, Len(s))

\* Array.prototype.shift(): drops the first element, a no-op on []
Shift(s) == IF s = <<>> THEN <<>> ELSE Tail(s)

Range(s) == {s[i] : i \in 1..Len(s)}

(***************************************************************************)
(* Events.  An event is identified by its eventId; `origin` tells the      *)
(* event createEvent built from the one a beforeSend hook returned.        *)
(* `timestamp` stands for the Date-valued fields of an event (timestamp,   *)
(* breadcrumbs[].timestamp, journey.startedAt): "date" for the Date the    *)
(* event was built with, "epoch" for the Date 1970-01-01T00:00:00Z and     *)
(* "invalid" for an Invalid Date.                                          *)
(***************************************************************************)
Event(id, origin) == [eventId |-> id, origin |-> origin, timestamp |-> "date"]

\* the events a previous session left in the store: ids -1, -2, ...
StoredEvents(k) == [i \in 1..k |-> Event(0 - i, "built")]

(***************************************************************************)
(* OfflineQueue (queue.ts).                                                *)
(***************************************************************************)
\* Date.prototype.toJSON under JSON.stringify: the ISO string, null for an
\* Invalid Date
DateToJSON(d) ==
    CASE d = "date"    -> "iso"
      [] d = "epoch"   -> "isoEpoch"
      [] d = "invalid" -> "null"

\* new Date(value) for a value read from JSON: the Date of an ISO string, the
\* epoch for null, an Invalid Date for undefined
NewDate(v) ==
    CASE v = "iso"       -> "date"
      [] v = "isoEpoch"  -> "epoch"
      [] v = "null"      -> "epoch"
      [] v = "undefined" -> "invalid"

\* JSON.stringify of one event
SerializeEvent(e) ==
    [eventId |-> e.eventId, origin |-> e.origin, timestamp |-> DateToJSON(e.timestamp)]

\* JSON.stringify(this.queue)
SerializeQueue(q) ==
    [state |-> "array", items |-> [i \in 1..Len(q) |-> SerializeEvent(q[i])]]

\* deserializeEvent(data): { ...data, timestamp: new Date(data.timestamp), ... }
DeserializeEvent(data) ==
    [eventId |-> data.eventId, origin |-> data.origin,
     timestamp |-> NewDate(data.timestamp)]

\* JSON items that are not events.  An item that is an object or a primitive
\* without the fields of an event ({} or 1): no eventId (written 0), no
\* timestamp.  The item null, on which data.timestamp throws a TypeError.
JunkItem == [eventId |-> 0, origin |-> "junk", timestamp |-> "undefined"]
NullItem == [eventId |-> 0, origin |-> "null", timestamp |-> "undefined"]

\* save(): localStorage.setItem inside try/catch
Save(q, st, mode) ==
    IF mode = "ok" THEN SerializeQueue(q) ELSE st

\* load(): the queue after construction.  The queue is assigned only when
\* getItem gave a string, JSON.parse gave a value with a map method and
\* deserializeEvent threw on no item; every throw is caught.
Load(st, mode) ==
    IF mode = "unavailable" THEN <<>>
    ELSE IF st.state = "array" /\ \A i \in 1..Len(st.items) : st.items[i] # NullItem
         THEN [i \in 1..Len(st.items) |-> DeserializeEvent(st.items[i])]
         ELSE <<>>

\* enqueue(event) written with unshift: the new event goes to the front
EnqueueAtFront(q, e, max) ==
    <<e>> \o (IF Len(q) >= max THEN Shift(q) ELSE q)

\* enqueue(event): the in-memory queue afterwards
Enqueue(q, e, max) ==
    Append(IF Len(q) >= max THEN Shift(q) ELSE q, e)

\* remove(eventId) written as this.queue.shift(): right only for the head
RemoveShift(q, id) == Shift(q)

\* remove(eventId)
Remove(q, id) == SelectSeq(q, LAMBDA e : e.eventId # id)

\* clear()
Clear == <<>>

\* the values localStorage[STORAGE_KEY] may hold when a queue is constructed:
\* no item, a string that is not JSON, JSON that is not an array, arrays
\* holding something that is not an event, and arrays of events
InitialStores ==
    {[state |-> "absent", items |-> <<>>], [state |-> "malformed", items |-> <<>>],
     [state |-> "nonarray", items |-> <<>>],
     [state |-> "array", items |-> <<JunkItem>>],
     [state |-> "array", items |-> <<NullItem>>]}
    \cup {SerializeQueue(StoredEvents(k)) : k \in 0..MaxStored}

StorageModes == {"ok", "unavailable", "writefails"}

\* new OfflineQueue(M): constructor, which calls load()
QueueConstructed(M, st, mode) ==
    /\ maxSize = M
    /\ store = st
    /\ storageMode = mode
    /\ queue = Load(st, mode)
    /\ nextId = 1
    /\ enqLog = <<>>
    /\ onlyEnq = (Load(st, mode) = <<>>)

(***************************************************************************)
(* BreadcrumbManager (breadcrumbs.ts).                                     *)
(***************************************************************************)
Breadcrumb(n, stamp) == [seq |-> n, stamp |-> stamp]

\* push, then "Trim to max size"
PushTrim(bs, b, max) ==
    LET pushed == Append(bs, b)
    IN  IF Len(pushed) > max THEN Slice(pushed, 0 - max) ELSE pushed

\* getAll(): a copy of the buffer
CrumbsGetAll == breadcrumbs

\* new BreadcrumbManager(N)
CrumbsConstructed(N) ==
    /\ maxBreadcrumbs = N
    /\ breadcrumbs = <<>>
    /\ added = <<>>
    /\ nAdds = 0

\* new TelemetryClient(options) for the specifications that do not run one
ClientIdle ==
    /\ sampleRate = RateScale
    /\ hookKind = "default"
    /\ queueEnabled = TRUE
    /\ timerOn = FALSE
    /\ captures = <<>>
    /\ drains = <<>>
    /\ closed = FALSE
    /\ tickedClosed = FALSE

\* no send has been made on the bare Transport; the collector and the
\* network answer in every way
TransportIdle == exchanges = <<>> /\ collector = "any"

\* a client on which startJourney was never called and no event was built
NoJourneys ==
    /\ journeys = <<>>
    /\ currentJourney = 0
    /\ built = <<>>

\* the keys and values setTag and setExtra are called with
ContextKeys == {"k"}
ContextValues == {"v1", "v2"}

\* a client on which setUser, setTag and setExtra were never called:
\* this.user is undefined, this.tags and this.extra are {}
NoContextSet ==
    /\ userObjects = <<>>
    /\ user = 0
    /\ tags = [k \in ContextKeys |-> "unset"]
    /\ extra = [k \in ContextKeys |-> "unset"]

\* the client is the one init() made the global client, and trackStep and
\* trackStepAsync were never called
NoTracks ==
    /\ globalClient = TRUE
    /\ tracks = <<>>

(***************************************************************************)
(* SpecQueue: an OfflineQueue driven through enqueue / remove / clear.     *)
(***************************************************************************)
InitQueue ==
    /\ \E M \in 0..MaxCap, st \in InitialStores, mode \in StorageModes :
          QueueConstructed(M, st, mode)
    /\ CrumbsConstructed(0)
    /\ ClientIdle
    /\ TransportIdle
    /\ NoJourneys
    /\ NoContextSet
    /\ NoTracks

QEnqueue ==
    /\ nextId <= MaxEnq
    /\ LET e == Event(nextId, "built") IN
          /\ queue' = Enqueue(queue, e, maxSize)
          /\ store' = Save(Enqueue(queue, e, maxSize), store, storageMode)
          /\ enqLog' = Append(enqLog, e)
    /\ nextId' = nextId + 1
    /\ UNCHANGED <<maxSize, storageMode, onlyEnq>>
    /\ UNCHANGED <<crumbVars, clientVars>>
    /\ UNCHANGED <<transportVars, journeyVars, contextVars, trackVars>>

QRemove ==
    /\ \E id \in {e.eventId : e \in Range(queue)} \cup {0} :
          /\ queue' = Remove(queue, id)
          /\ store' = Save(Remove(queue, id), store, storageMode)
    /\ onlyEnq' = FALSE
    /\ UNCHANGED <<maxSize, storageMode, nextId, enqLog>>
    /\ UNCHANGED <<crumbVars, clientVars>>
    /\ UNCHANGED <<transportVars, journeyVars, contextVars, trackVars>>

QClear ==
    /\ queue' = Clear
    /\ store' = Save(Clear, store, storageMode)
    /\ onlyEnq' = FALSE
    /\ UNCHANGED <<maxSize, storageMode, nextId, enqLog>>
    /\ UNCHANGED <<crumbVars, clientVars>>
    /\ UNCHANGED <<transportVars, journeyVars, contextVars, trackVars>>

NextQueue == QEnqueue \/ QRemove \/ QClear

SpecQueue == InitQueue /\ [][NextQueue]_vars

(***************************************************************************)
(* SpecCrumbs: a BreadcrumbManager driven through add / addBreadcrumb /    *)
(* clear.                                                                  *)
(***************************************************************************)
InitCrumbs ==
    /\ \E N \in 0..MaxCrumbCap : CrumbsConstructed(N)
    /\ QueueConstructed(0, [state |-> "absent", items |-> <<>>], "ok")
    /\ ClientIdle
    /\ TransportIdle
    /\ NoJourneys
    /\ NoContextSet
    /\ NoTracks

\* add(message, category, level, data): timestamp is new Date()
BAdd ==
    /\ nAdds < MaxAdds
    /\ LET b == Breadcrumb(nAdds + 1, "now") IN
          /\ breadcrumbs' = PushTrim(breadcrumbs, b, maxBreadcrumbs)
          /\ added' = Append(added, b)
    /\ nAdds' = nAdds + 1
    /\ UNCHANGED <<maxBreadcrumbs, queueVars, clientVars>>
    /\ UNCHANGED <<transportVars, journeyVars, contextVars, trackVars>>

\* addBreadcrumb(breadcrumb): timestamp is breadcrumb.timestamp ?? new Date()
BAddBreadcrumb ==
    /\ nAdds < MaxAdds
    /\ \E given \in BOOLEAN :
          LET b == Breadcrumb(nAdds + 1, IF given THEN "given" ELSE "now") IN
             /\ breadcrumbs' = PushTrim(breadcrumbs, b, maxBreadcrumbs)
             /\ added' = Append(added, b)
    /\ nAdds' = nAdds + 1
    /\ UNCHANGED <<maxBreadcrumbs, queueVars, clientVars>>
    /\ UNCHANGED <<transportVars, journeyVars, contextVars, trackVars>>

\* clear()
BClear ==
    /\ breadcrumbs' = <<>>
    /\ added' = <<>>
    /\ UNCHANGED <<maxBreadcrumbs, nAdds, queueVars, clientVars>>
    /\ UNCHANGED <<transportVars, journeyVars, contextVars, trackVars>>

NextCrumbs == BAdd \/ BAddBreadcrumb \/ BClear

SpecCrumbs == InitCrumbs /\ [][NextCrumbs]_vars

(***************************************************************************)
(* Options (config.ts).  Rates and draws are multiples of 1/RateScale:     *)
(* RateScale stands for 1.0 and a draw of Math.random() is in              *)
(* 0..RateScale-1, that is in [0,1).                                       *)
(***************************************************************************)
\* Math.max(0, Math.min(1, options.sampleRate))
ResolveSampleRate(raw) == Max(0, Min(RateScale, raw))

RawSampleRates == (0 - 1)..(RateScale + 1)
Draws == 0..(RateScale - 1)

(***************************************************************************)
(* Transport (transport.ts).                                               *)
(***************************************************************************)
NoEvent == [eventId |-> 0, origin |-> "none"]
NoResult == [success |-> FALSE, eventId |-> 0, error |-> "unset", queued |-> "absent"]

\* what the exchange with the collector can turn out to be
Responses == {"2xx_id", "2xx_noid", "2xx_nobody", "non2xx", "neterror"}

\* the id a collector that assigns its own ids answers with
ServerIdOf(e) == 1000 + e.eventId

\* send(event): the SendResult the exchange is mapped to.  A 2xx response
\* without a JSON body makes response.json() reject, which the catch block
\* turns into a failure; `error` tells only whether an error string is set.
TransportSend(e, resp) ==
    CASE resp = "2xx_id"     -> [success |-> TRUE, eventId |-> ServerIdOf(e),
                                 error |-> "none", queued |-> "absent"]
      [] resp = "2xx_noid"   -> [success |-> TRUE, eventId |-> e.eventId,
                                 error |-> "none", queued |-> "absent"]
      [] resp = "2xx_nobody" -> [success |-> FALSE, eventId |-> 0,
                                 error |-> "message", queued |-> "absent"]
      [] resp = "non2xx"     -> [success |-> FALSE, eventId |-> 0,
                                 error |-> "message", queued |-> "absent"]
      [] resp = "neterror"   -> [success |-> FALSE, eventId |-> 0,
                                 error |-> "message", queued |-> "absent"]

\* the answers a send can get from the collector as it is
ResponsesOf(mode) ==
    CASE mode = "any"               -> Responses
      [] mode = "accepting"         -> {"2xx_id", "2xx_noid", "2xx_nobody"}
      [] mode = "acceptingWithBody" -> {"2xx_id", "2xx_noid"}

\* isOnline(): response.ok of the health probe, false on any error
ProbeAnswersOf(mode) == IF mode = "any" THEN BOOLEAN ELSE {TRUE}

(***************************************************************************)
(* TelemetryClient (client.ts): the capture path.                          *)
(***************************************************************************)
\* createEvent(): a fresh event
CreateEvent(id) == Event(id, "built")

\* Math.random() > this.options.sampleRate
SampledOut(draw, rate) == draw > rate

\* what options.beforeSend may return: true, false, or an event; the default
\* hook is () => true
HookReturns(kind) == IF kind = "default" THEN {"true"} ELSE {"true", "false", "event"}

\* DEFAULT_OPTIONS.sampleRate
DefaultSampleRate == RateScale

\* sendEvent going on with the built event whatever the hook returned
EventToSendOriginal(e, hook) == e

\* beforeSendResult === true ? event : beforeSendResult
EventToSend(e, hook) == IF hook = "true" THEN e ELSE Event(e.eventId, "hook")

\* { success: true, eventId: event.eventId }: the result of a dropped capture
DroppedResult(e) ==
    [success |-> TRUE, eventId |-> e.eventId, error |-> "none", queued |-> "absent"]

\* the failure result returned without the queued flag
QueuedResultNoFlag(r) == r

\* { ...result, queued: true }
QueuedResult(r) == [r EXCEPT !.queued = "true"]

\* this.queue is used only when offline queueing is enabled
MustEnqueue(r, enabled) == ~r.success /\ enabled

\* sendEvent() with the hook run before the sample-rate check
CaptureCallHookFirst(draw, hook, rate, id) ==
    LET e == Event(id, "built") IN
    IF hook = "false" \/ draw > rate
    THEN [pc |-> "done", event |-> e,
          dropped |-> IF hook = "false" THEN "hook" ELSE "sampling",
          hookCalled |-> TRUE, hookRet |-> hook, toSend |-> NoEvent, sent |-> FALSE,
          tresult |-> NoResult, result |-> DroppedResult(e), enqueued |-> FALSE]
    ELSE [pc |-> "sending", event |-> e, dropped |-> "no", hookCalled |-> TRUE,
          hookRet |-> hook, toSend |-> EventToSend(e, hook), sent |-> TRUE,
          tresult |-> NoResult, result |-> NoResult, enqueued |-> FALSE]

\* sendEvent() testing the hook's result for truthiness the wrong way round:
\* a hook returning false no longer drops the event
CaptureCallIgnoreFalse(draw, hook, rate, id) ==
    LET e == Event(id, "built") IN
    IF draw > rate
    THEN [pc |-> "done", event |-> e, dropped |-> "sampling", hookCalled |-> FALSE,
          hookRet |-> "none", toSend |-> NoEvent, sent |-> FALSE,
          tresult |-> NoResult, result |-> DroppedResult(e), enqueued |-> FALSE]
    ELSE [pc |-> "sending", event |-> e, dropped |-> "no", hookCalled |-> TRUE,
          hookRet |-> hook, toSend |-> EventToSend(e, hook), sent |-> TRUE,
          tresult |-> NoResult, result |-> NoResult, enqueued |-> FALSE]

\* sendEvent() up to its await: sampling, the hook, the call of transport.send.
\* `dropped`, `hookCalled` and `sent` record which of the three were reached.
CaptureCall(draw, hook, rate, id) ==
    LET e == CreateEvent(id) IN
    IF SampledOut(draw, rate)
    THEN [pc |-> "done", event |-> e, dropped |-> "sampling", hookCalled |-> FALSE,
          hookRet |-> "none", toSend |-> NoEvent, sent |-> FALSE,
          tresult |-> NoResult, result |-> DroppedResult(e), enqueued |-> FALSE]
    ELSE IF hook = "false"
    THEN [pc |-> "done", event |-> e, dropped |-> "hook", hookCalled |-> TRUE,
          hookRet |-> hook, toSend |-> NoEvent, sent |-> FALSE,
          tresult |-> NoResult, result |-> DroppedResult(e), enqueued |-> FALSE]
    ELSE [pc |-> "sending", event |-> e, dropped |-> "no", hookCalled |-> TRUE,
          hookRet |-> hook, toSend |-> EventToSend(e, hook), sent |-> TRUE,
          tresult |-> NoResult, result |-> NoResult, enqueued |-> FALSE]

\* sendEvent() after its await: the capture record once transport.send resolved
CaptureReturn(c, tres, enabled) ==
    [c EXCEPT !.pc = "done",
              !.tresult = tres,
              !.result = IF MustEnqueue(tres, enabled) THEN QueuedResult(tres) ELSE tres,
              !.enqueued = MustEnqueue(tres, enabled)]

(***************************************************************************)
(* TelemetryClient (client.ts): processQueue.  A drain record holds the    *)
(* position of one invocation and the history of what it did.              *)
(***************************************************************************)
IdleDrain ==
    [pc |-> "idle", path |-> "none", emptyAtCall |-> FALSE, probed |-> FALSE,
     events |-> <<>>, snap |-> <<>>, idx |-> 0,
     attempts |-> <<>>, outcomes |-> <<>>, removed |-> {}, alone |-> TRUE]

\* getAll(): a copy of the queue, in queue order
QueueGetAll(q) == q

\* the guard of processQueue without its isEmpty test
NothingToDrainNoEmptyTest(enabled, q) == ~enabled

\* !this.queue || this.queue.isEmpty
NothingToDrain(enabled, q) == ~enabled \/ Len(q) = 0

\* processQueue() up to its first await
DrainCall(enabled, q) ==
    IF NothingToDrain(enabled, q)
    THEN [IdleDrain EXCEPT !.pc = "done", !.path = "empty",
                           !.emptyAtCall = (~enabled \/ Len(q) = 0)]
    ELSE [IdleDrain EXCEPT !.pc = "probing", !.probed = TRUE,
                           !.emptyAtCall = (~enabled \/ Len(q) = 0)]

\* processQueue() after isOnline() resolved, up to the first send
DrainProbed(d, online, q) ==
    IF ~online
    THEN [d EXCEPT !.pc = "done", !.path = "offline"]
    ELSE LET evs == QueueGetAll(q) IN
         IF evs = <<>>
         THEN [d EXCEPT !.pc = "done", !.path = "online", !.snap = q, !.alone = TRUE]
         ELSE [d EXCEPT !.pc = "sending", !.path = "online", !.snap = q, !.alone = TRUE,
                        !.events = evs, !.idx = 1, !.attempts = <<evs[1]>>]

\* if (result.success) this.queue.remove(event.eventId)
DrainRemove(q, e, res) == IF res.success THEN Remove(q, e.eventId) ELSE q

\* the loop of processQueue() leaving at the first failed send
DrainSentStopOnFailure(d, res, q) ==
    LET base == [d EXCEPT !.outcomes = Append(d.outcomes, res.success),
                          !.removed = d.removed \cup
                              (Range(q) \ Range(DrainRemove(q, d.events[d.idx], res)))]
    IN  IF d.idx < Len(d.events) /\ res.success
        THEN [base EXCEPT !.idx = d.idx + 1,
                          !.attempts = Append(d.attempts, d.events[d.idx + 1])]
        ELSE [base EXCEPT !.pc = "done"]

\* the loop of processQueue() after one send resolved, up to the next send
DrainSent(d, res, q) ==
    LET base == [d EXCEPT !.outcomes = Append(d.outcomes, res.success),
                          !.removed = d.removed \cup
                              (Range(q) \ Range(DrainRemove(q, d.events[d.idx], res)))]
    IN  IF d.idx < Len(d.events)
        THEN [base EXCEPT !.idx = d.idx + 1,
                          !.attempts = Append(d.attempts, d.events[d.idx + 1])]
        ELSE [base EXCEPT !.pc = "done"]

\* history: the queue was changed by somebody other than drain `except`, so
\* no other drain has had the queue to itself since it took its snapshot
Disturb(ds, except) ==
    [k \in DOMAIN ds |->
        IF k # except THEN [ds[k] EXCEPT !.alone = FALSE] ELSE ds[k]]

\* the events of a drain whose send succeeded
Succeeded(d) == {d.attempts[i] : i \in {j \in 1..Len(d.outcomes) : d.outcomes[j]}}

(***************************************************************************)
(* Spec: one TelemetryClient.                                              *)
(***************************************************************************)
\* new TelemetryClient(options): the client's own fields after construction
ClientConstructed(raw, hook, enabled) ==
    /\ sampleRate = ResolveSampleRate(raw)
    /\ hookKind = hook
    /\ queueEnabled = enabled
    /\ timerOn = enabled
    /\ captures = <<>>
    /\ drains = <<>>
    /\ closed = FALSE
    /\ tickedClosed = FALSE

\* a client with the default sampleRate and beforeSend; with offline queueing
\* enabled, over every capacity and every persisted array
Init ==
    /\ \E enabled \in BOOLEAN :
          /\ ClientConstructed(DefaultSampleRate, "default", enabled)
          /\ IF enabled
             THEN \E M \in 0..MaxCap, k \in 0..MaxStored :
                     QueueConstructed(M, SerializeQueue(StoredEvents(k)), "ok")
             ELSE QueueConstructed(0, [state |-> "absent", items |-> <<>>], "ok")
    /\ CrumbsConstructed(0)
    /\ TransportIdle
    /\ NoJourneys
    /\ NoContextSet
    /\ NoTracks

\* captureException / captureMessage: createEvent, then sendEvent to its await
Capture ==
    /\ nextId <= MaxEvents
    /\ \E draw \in Draws, hook \in HookReturns(hookKind) :
          captures' = Append(captures, CaptureCall(draw, hook, sampleRate, nextId))
    /\ nextId' = nextId + 1
    /\ UNCHANGED <<maxSize, queue, store, storageMode, enqLog, onlyEnq>>
    /\ UNCHANGED <<sampleRate, hookKind, queueEnabled, timerOn, drains, crumbVars>>
    /\ UNCHANGED <<closed, tickedClosed, transportVars, journeyVars, contextVars, trackVars>>

\* transport.send resolves for a capture: enqueue on failure, return the result
CaptureSendDone ==
    \E c \in 1..Len(captures), resp \in ResponsesOf(collector) :
       /\ captures[c].pc = "sending"
       /\ LET tres == TransportSend(captures[c].toSend, resp) IN
             /\ captures' = [captures EXCEPT ![c] = CaptureReturn(@, tres, queueEnabled)]
             /\ IF MustEnqueue(tres, queueEnabled)
                THEN /\ queue' = Enqueue(queue, captures[c].toSend, maxSize)
                     /\ store' = Save(Enqueue(queue, captures[c].toSend, maxSize),
                                      store, storageMode)
                     /\ enqLog' = Append(enqLog, captures[c].toSend)
                     /\ drains' = Disturb(drains, 0)
                ELSE UNCHANGED <<queue, store, enqLog, drains>>
       /\ UNCHANGED <<maxSize, storageMode, nextId, onlyEnq>>
       /\ UNCHANGED <<sampleRate, hookKind, queueEnabled, timerOn, crumbVars>>
       /\ UNCHANGED <<closed, tickedClosed, transportVars, journeyVars, contextVars, trackVars>>

\* the setInterval callback: () => this.processQueue()
TimerTick ==
    /\ timerOn
    /\ Len(drains) < MaxDrains
    /\ drains' = Append(drains, DrainCall(queueEnabled, queue))
    /\ tickedClosed' = (tickedClosed \/ closed)
    /\ UNCHANGED <<queueVars, crumbVars, sampleRate, hookKind, queueEnabled, timerOn, captures>>
    /\ UNCHANGED <<closed, transportVars, journeyVars, contextVars, trackVars>>

\* flush(): await this.processQueue()
Flush ==
    /\ Len(drains) < MaxDrains
    /\ drains' = Append(drains, DrainCall(queueEnabled, queue))
    /\ UNCHANGED <<queueVars, crumbVars, sampleRate, hookKind, queueEnabled, timerOn, captures>>
    /\ UNCHANGED <<closed, tickedClosed, transportVars, journeyVars, contextVars, trackVars>>

\* transport.isOnline() resolves for a drain
DrainProbeDone ==
    \E k \in 1..Len(drains), online \in ProbeAnswersOf(collector) :
       /\ drains[k].pc = "probing"
       /\ drains' = [drains EXCEPT ![k] = DrainProbed(@, online, queue)]
       /\ UNCHANGED <<queueVars, crumbVars, sampleRate, hookKind, queueEnabled, timerOn, captures>>
       /\ UNCHANGED <<closed, tickedClosed, transportVars, journeyVars, contextVars, trackVars>>

\* transport.send resolves for a drain: remove on success, go on with the next
DrainSendDone ==
    \E k \in 1..Len(drains), resp \in ResponsesOf(collector) :
       /\ drains[k].pc = "sending"
       /\ LET e == drains[k].events[drains[k].idx]
              res == TransportSend(e, resp)
          IN  /\ queue' = DrainRemove(queue, e, res)
              /\ store' = IF res.success
                          THEN Save(DrainRemove(queue, e, res), store, storageMode)
                          ELSE store
              /\ drains' = [Disturb(drains, IF res.success THEN k ELSE 0)
                               EXCEPT ![k] = DrainSent(drains[k], res, queue)]
              /\ onlyEnq' = (onlyEnq /\ ~res.success)
       /\ UNCHANGED <<maxSize, storageMode, nextId, enqLog>>
       /\ UNCHANGED <<crumbVars, sampleRate, hookKind, queueEnabled, timerOn, captures>>
       /\ UNCHANGED <<closed, tickedClosed, transportVars, journeyVars, contextVars, trackVars>>

\* close() without the clearInterval call: the interval stays armed
ClearIntervalSkipped(armed) == armed

\* clearInterval(handle): the interval no longer fires
ClearInterval(armed) == FALSE

\* close(): if (this.flushInterval) clearInterval(this.flushInterval); the
\* handle is set exactly when the client has a queue
Close ==
    /\ timerOn' = IF queueEnabled THEN ClearInterval(timerOn) ELSE timerOn
    /\ closed' = TRUE
    /\ UNCHANGED <<queueVars, crumbVars, sampleRate, hookKind, queueEnabled, captures, drains>>
    /\ UNCHANGED <<tickedClosed, transportVars, journeyVars, contextVars, trackVars>>

Next ==
    \/ Capture
    \/ CaptureSendDone
    \/ TimerTick
    \/ Flush
    \/ DrainProbeDone
    \/ DrainSendDone
    \/ Close

Spec == Init /\ [][Next]_vars

(***************************************************************************)
(* SpecCapture: the capture path of a client under every sampleRate,       *)
(* beforeSend and queueing option, before the flush timer first fires.     *)
(***************************************************************************)
InitCapture ==
    /\ \E raw \in RawSampleRates, hook \in {"default", "custom"}, enabled \in BOOLEAN :
          /\ ClientConstructed(raw, hook, enabled)
          /\ IF enabled
             THEN \E M \in 0..MaxCap, mode \in StorageModes :
                     QueueConstructed(M, [state |-> "absent", items |-> <<>>], mode)
             ELSE QueueConstructed(0, [state |-> "absent", items |-> <<>>], "ok")
    /\ CrumbsConstructed(0)
    /\ TransportIdle
    /\ NoJourneys
    /\ NoContextSet
    /\ NoTracks

NextCapture == Capture \/ CaptureSendDone

SpecCapture == InitCapture /\ [][NextCapture]_vars

(***************************************************************************)
(* SpecLive: a client with a queue that is never closed.  Its timer keeps  *)
(* firing, every probe and every send resolves, and the collector may at   *)
(* some point become reachable for good.                                   *)
(***************************************************************************)
InitLive ==
    /\ ClientConstructed(DefaultSampleRate, "default", TRUE)
    /\ \E M \in 0..MaxCap, k \in 0..MaxStored :
          QueueConstructed(M, SerializeQueue(StoredEvents(k)), "ok")
    /\ CrumbsConstructed(0)
    /\ TransportIdle
    /\ NoJourneys
    /\ NoContextSet
    /\ NoTracks

\* the sequence s without its k-th element
Without(s, k) == [i \in 1..(Len(s) - 1) |-> IF i < k THEN s[i] ELSE s[i + 1]]

\* the setInterval callback firing once more: the record of an invocation
\* that has returned makes room for the new one
TimerTickAgain ==
    /\ timerOn
    /\ Len(drains) = MaxDrains
    /\ \E k \in 1..Len(drains) :
          /\ drains[k].pc = "done"
          /\ drains' = Append(Without(drains, k), DrainCall(queueEnabled, queue))
    /\ tickedClosed' = (tickedClosed \/ closed)
    /\ UNCHANGED <<queueVars, crumbVars, sampleRate, hookKind, queueEnabled, timerOn, captures>>
    /\ UNCHANGED <<closed, transportVars, journeyVars, contextVars, trackVars>>

\* from now on the collector is reachable and answers every event with 2xx
CollectorRecovers ==
    /\ collector = "any"
    /\ collector' \in {"accepting", "acceptingWithBody"}
    /\ UNCHANGED <<queueVars, crumbVars, clientVars, journeyVars, contextVars, trackVars, exchanges>>

NextLive ==
    \/ Capture
    \/ CaptureSendDone
    \/ TimerTick
    \/ TimerTickAgain
    \/ DrainProbeDone
    \/ DrainSendDone
    \/ CollectorRecovers

SpecLive ==
    /\ InitLive
    /\ [][NextLive]_vars
    /\ WF_vars(TimerTick)
    /\ WF_vars(TimerTickAgain)
    /\ WF_vars(DrainProbeDone)
    /\ WF_vars(DrainSendDone)
    /\ WF_vars(CaptureSendDone)

(***************************************************************************)
(* SpecTransport: a Transport on which send is called with events and      *)
(* answered in every way the collector and the network can answer.         *)
(***************************************************************************)
InitTransport ==
    /\ QueueConstructed(0, [state |-> "absent", items |-> <<>>], "ok")
    /\ CrumbsConstructed(0)
    /\ ClientIdle
    /\ TransportIdle
    /\ NoJourneys
    /\ NoContextSet
    /\ NoTracks

\* await transport.send(event), from the call to the returned SendResult
SendExchange ==
    /\ Len(exchanges) < MaxExchanges
    /\ \E id \in 1..MaxExchanges, origin \in {"built", "hook"}, resp \in Responses :
          exchanges' = Append(exchanges,
                              [event |-> Event(id, origin), response |-> resp,
                               result |-> TransportSend(Event(id, origin), resp)])
    /\ UNCHANGED <<queueVars, crumbVars, clientVars, journeyVars, contextVars, trackVars, collector>>

NextTransport == SendExchange

SpecTransport == InitTransport /\ [][NextTransport]_vars

(***************************************************************************)
(* Journey and Step (journey.ts).  A journey record holds the fields of a  *)
(* Journey object; its steps are the JourneyStep objects of this.steps and *)
(* `current` is the position of this.currentStep in it (0 for undefined).  *)
(* `disposed` is history: the dispose method of a scope around the object  *)
(* has run.                                                                *)
(* endedAt is 0 while undefined, 1 once assigned, 2 once assigned again.   *)
(* Step names are the caller's: the n-th step started on a journey is      *)
(* given the n-th of the caller's names, written n.                        *)
(***************************************************************************)
MetaKeys == {"plan"}
MetaValues == {"free", "pro"}

\* new Journey(name)
NewJourney ==
    [completed |-> FALSE, failed |-> FALSE, steps |-> <<>>, current |-> 0,
     metadata |-> [k \in MetaKeys |-> "unset"], user |-> 0, disposed |-> FALSE]

\* { id, email, data }: a new User object; `id` stands for the three arguments
NewUser(objs, id) == Append(objs, [id |-> id])

\* Journey.setUser(id, email, data): this.user is a new User object, here the
\* one at position ref
JourneySetUser(jr, ref) == [jr EXCEPT !.user = ref]

\* Journey.getUser()
JourneyGetUser(jr) == jr.user

\* the JourneyStep literal of startStep
NewStep(name) ==
    [name |-> name, status |-> "in_progress", endedAt |-> 0, disposed |-> FALSE]

\* endedAt = new Date()
Stamp(t) == IF t = 0 THEN 1 ELSE 2

\* this.currentStep && this.currentStep.status === 'in_progress'
CurrentInProgress(jr) ==
    jr.current # 0 /\ jr.steps[jr.current].status = "in_progress"

\* the current step ended without an end time
EndCurrentNoStamp(jr, status) ==
    IF CurrentInProgress(jr)
    THEN [jr EXCEPT !.steps[jr.current].status = status]
    ELSE jr

\* if the current step is in progress: set its status and its endedAt
EndCurrent(jr, status) ==
    IF CurrentInProgress(jr)
    THEN [jr EXCEPT !.steps[jr.current].status = status,
                    !.steps[jr.current].endedAt = Stamp(@)]
    ELSE jr

\* Journey.startStep pushing the new step without ending the current one
JourneyStartStepKeepsCurrent(jr, name) ==
    [jr EXCEPT !.steps = Append(@, NewStep(name)),
               !.current = Len(jr.steps) + 1]

\* Journey.startStep(name)
JourneyStartStep(jr, name) ==
    LET ended == EndCurrent(jr, "completed") IN
    [ended EXCEPT !.steps = Append(@, NewStep(name)),
                  !.current = Len(jr.steps) + 1]

\* Journey.setMetadata(key, value): this.metadata[key] = value
JourneySetMetadata(jr, key, value) == [jr EXCEPT !.metadata[key] = value]

\* Journey.complete() ending the current step whatever its status
JourneyCompleteUnguarded(jr) ==
    [(IF jr.current # 0
      THEN [jr EXCEPT !.steps[jr.current].status = "completed",
                      !.steps[jr.current].endedAt = Stamp(@)]
      ELSE jr) EXCEPT !.completed = TRUE]

\* Journey.complete()
JourneyComplete(jr) == [EndCurrent(jr, "completed") EXCEPT !.completed = TRUE]

\* Journey.fail()
JourneyFail(jr) == [EndCurrent(jr, "failed") EXCEPT !.failed = TRUE]

\* getContext(): journeyId, currentStep (this.currentStep?.name, 0 for
\* undefined) and metadata, which is the journey's own metadata object and not
\* a copy: the context holds a reference to it
GetContext(js, j) ==
    [journeyId |-> j,
     currentStep |-> IF js[j].current = 0 THEN 0 ELSE js[j].steps[js[j].current].name,
     metadataOf |-> j]

\* get isComplete()
IsComplete(jr) == jr.completed \/ jr.failed

\* Step.complete()
StepComplete(st) == [st EXCEPT !.status = "completed", !.endedAt = Stamp(@)]

\* Step.fail()
StepFail(st) == [st EXCEPT !.status = "failed", !.endedAt = Stamp(@)]

\* JourneyScope[Symbol.dispose] calling complete() whatever the journey's state
JourneyScopeDisposeAlways(jr) == [JourneyComplete(jr) EXCEPT !.disposed = TRUE]

\* JourneyScope[Symbol.dispose]: the journey afterwards
JourneyScopeDispose(jr) ==
    [(IF ~IsComplete(jr) THEN JourneyComplete(jr) ELSE jr) EXCEPT !.disposed = TRUE]

\* StepScope[Symbol.dispose]: the step afterwards
StepScopeDispose(st) ==
    [(IF st.status = "in_progress" THEN StepComplete(st) ELSE st)
        EXCEPT !.disposed = TRUE]

\* the number of steps started so far, over all journeys
RECURSIVE StepsStarted(_)
StepsStarted(js) ==
    IF js = <<>> THEN 0 ELSE Len(js[1].steps) + StepsStarted(Tail(js))

\* the (journey, step) pairs of the Step objects handed out so far
StepHandles == {<<j, n>> : j \in 1..MaxJourneys, n \in 1..MaxSteps}
LiveSteps ==
    {h \in StepHandles : h[1] <= Len(journeys) /\ h[2] <= Len(journeys[h[1]].steps)}

(***************************************************************************)
(* SpecJourney: one TelemetryClient on which journeys and steps are        *)
(* started, ended and disposed in every order.  The caller keeps every     *)
(* Journey, Step and scope object it was handed, so each stays callable.   *)
(***************************************************************************)
InitJourney ==
    /\ QueueConstructed(0, [state |-> "absent", items |-> <<>>], "ok")
    /\ CrumbsConstructed(0)
    /\ ClientIdle
    /\ TransportIdle
    /\ NoJourneys
    /\ NoContextSet
    /\ NoTracks

\* client.startJourney(name): a new Journey becomes the current one; when
\* this.user is set the journey is given a User object of its own with the same
\* id, email and data.  At most `max` journeys are started.
StartJourneyUpTo(max) ==
    /\ Len(journeys) < max
    /\ IF user # 0
       THEN /\ userObjects' = NewUser(userObjects, userObjects[user].id)
            /\ journeys' = Append(journeys,
                                  JourneySetUser(NewJourney, Len(userObjects) + 1))
       ELSE /\ userObjects' = userObjects
            /\ journeys' = Append(journeys, NewJourney)
    /\ currentJourney' = Len(journeys) + 1
    /\ UNCHANGED <<queueVars, crumbVars, clientVars, transportVars, trackVars, built>>
    /\ UNCHANGED <<user, tags, extra>>

StartJourney == StartJourneyUpTo(MaxJourneys)

\* client.startStep(name): throws when there is no current journey
StartStep ==
    /\ currentJourney # 0
    /\ StepsStarted(journeys) < MaxSteps
    /\ journeys' = [journeys EXCEPT
                        ![currentJourney] = JourneyStartStep(@, Len(@.steps) + 1)]
    /\ UNCHANGED <<queueVars, crumbVars, clientVars, transportVars, contextVars, trackVars, currentJourney, built>>

\* scope.getJourney().startStep(name) on any journey the caller holds
DirectStartStep ==
    /\ StepsStarted(journeys) < MaxSteps
    /\ \E j \in 1..Len(journeys) :
          journeys' = [journeys EXCEPT ![j] = JourneyStartStep(@, Len(@.steps) + 1)]
    /\ UNCHANGED <<queueVars, crumbVars, clientVars, transportVars, contextVars, trackVars, currentJourney, built>>

\* journey.setMetadata(key, value)
SetMetadata ==
    /\ \E j \in 1..Len(journeys), k \in MetaKeys, v \in MetaValues :
          /\ journeys' = [journeys EXCEPT ![j] = JourneySetMetadata(@, k, v)]
    /\ UNCHANGED <<queueVars, crumbVars, clientVars, transportVars, contextVars, trackVars, currentJourney, built>>

\* journey.complete()
CompleteJourney ==
    /\ \E j \in 1..Len(journeys) :
          /\ journeys' = [journeys EXCEPT ![j] = JourneyComplete(@)]
    /\ UNCHANGED <<queueVars, crumbVars, clientVars, transportVars, contextVars, trackVars, currentJourney, built>>

\* journey.fail()
FailJourney ==
    /\ \E j \in 1..Len(journeys) :
          /\ journeys' = [journeys EXCEPT ![j] = JourneyFail(@)]
    /\ UNCHANGED <<queueVars, crumbVars, clientVars, transportVars, contextVars, trackVars, currentJourney, built>>

\* step.complete()
CompleteStep ==
    /\ \E h \in LiveSteps :
          /\ journeys' = [journeys EXCEPT ![h[1]].steps[h[2]] = StepComplete(@)]
    /\ UNCHANGED <<queueVars, crumbVars, clientVars, transportVars, contextVars, trackVars, currentJourney, built>>

\* step.fail()
FailStep ==
    /\ \E h \in LiveSteps :
          /\ journeys' = [journeys EXCEPT ![h[1]].steps[h[2]] = StepFail(@)]
    /\ UNCHANGED <<queueVars, crumbVars, clientVars, transportVars, contextVars, trackVars, currentJourney, built>>

\* journeyScope[Symbol.dispose](): complete if not complete, then the
\* onComplete callback of client.startJourney: this.currentJourney = undefined
DisposeJourneyScope ==
    /\ \E j \in 1..Len(journeys) :
          /\ journeys' = [journeys EXCEPT ![j] = JourneyScopeDispose(@)]
    /\ currentJourney' = 0
    /\ UNCHANGED <<queueVars, crumbVars, clientVars, transportVars, contextVars, trackVars, built>>

\* stepScope[Symbol.dispose]()
DisposeStepScope ==
    /\ \E h \in LiveSteps :
          /\ journeys' = [journeys EXCEPT ![h[1]].steps[h[2]] = StepScopeDispose(@)]
    /\ UNCHANGED <<queueVars, crumbVars, clientVars, transportVars, contextVars, trackVars, currentJourney, built>>

NextJourney ==
    \/ StartJourney
    \/ StartStep
    \/ DirectStartStep
    \/ CompleteJourney
    \/ FailJourney
    \/ CompleteStep
    \/ FailStep
    \/ DisposeJourneyScope
    \/ DisposeStepScope

SpecJourney == InitJourney /\ [][NextJourney]_vars

(***************************************************************************)
(* SpecSnapshot: events are built by createEvent while breadcrumbs are     *)
(* added and cleared and the current journey goes on changing.  A built    *)
(* event holds its own copy of the breadcrumb array (getAll spreads it)    *)
(* and the object getContext returned, whose metadata is a reference.      *)
(***************************************************************************)
NoContext == [journeyId |-> 0, currentStep |-> 0, metadataOf |-> 0]

\* what a reader of the metadata of a journey context sees
MetadataOf(ctx, js) ==
    IF ctx.metadataOf = 0
    THEN [k \in MetaKeys |-> "unset"]
    ELSE js[ctx.metadataOf].metadata

\* what a reader of event.breadcrumbs and event.journey sees
ReadEvent(crumbs, ctx, js) ==
    [breadcrumbs |-> crumbs, journeyId |-> ctx.journeyId,
     currentStep |-> ctx.currentStep, metadata |-> MetadataOf(ctx, js)]

\* createEvent(): breadcrumbs and journey of the new event; `asBuilt` is
\* history, what a reader of the event saw when it was built
CreateSnapshot(crumbs, js, cur) ==
    LET ctx == IF cur = 0 THEN NoContext ELSE GetContext(js, cur) IN
    [breadcrumbs |-> crumbs, journey |-> ctx, asBuilt |-> ReadEvent(crumbs, ctx, js)]

InitSnapshot ==
    /\ QueueConstructed(0, [state |-> "absent", items |-> <<>>], "ok")
    /\ \E N \in 1..MaxCrumbCap : CrumbsConstructed(N)
    /\ ClientIdle
    /\ TransportIdle
    /\ NoJourneys
    /\ NoContextSet
    /\ NoTracks

\* captureException / captureMessage up to the end of createEvent
BuildEvent ==
    /\ Len(built) < MaxBuilt
    /\ built' = Append(built, CreateSnapshot(CrumbsGetAll, journeys, currentJourney))
    /\ UNCHANGED <<queueVars, crumbVars, clientVars, transportVars, contextVars, trackVars, journeys, currentJourney>>

NextSnapshot ==
    \/ StartJourney
    \/ StartStep
    \/ SetMetadata
    \/ CompleteJourney
    \/ FailJourney
    \/ BAdd
    \/ BClear
    \/ BuildEvent

SpecSnapshot == InitSnapshot /\ [][NextSnapshot]_vars

(***************************************************************************)
(* Ambient context of a TelemetryClient (client.ts): user, tags and extra, *)
(* and the fields of an event that createEvent reads from them.  A field   *)
(* of an event that holds an object is a reference: `ref` names the object *)
(* it points to ("copy" for an object of the event's own, made by a        *)
(* spread) and `val` is what that object held when the event was built.    *)
(***************************************************************************)
UserIds == {"u1", "u2"}

\* setUser(id, email, data): this.user = { id, email, data }
ClientSetUser(objs, cur, id) ==
    [objects |-> NewUser(objs, id), user |-> Len(objs) + 1]

\* this.tags[key] = value / this.extra[key] = value
SetKey(obj, key, value) == [obj EXCEPT ![key] = value]

\* the event field holding the client's object itself
SharedWithClient(obj, owner) == [ref |-> owner, val |-> obj]

\* { ...this.tags } / { ...this.extra }: a new object with the same entries
Spread(obj, owner) == [ref |-> "copy", val |-> obj]

\* the journey's user unless the client has one
EventUserClientFirst(js, cur, clientUser) ==
    IF clientUser # 0 THEN clientUser
    ELSE IF cur # 0 THEN JourneyGetUser(js[cur]) ELSE 0

\* this.currentJourney?.getUser() ?? this.user
EventUser(js, cur, clientUser) ==
    IF cur # 0 /\ JourneyGetUser(js[cur]) # 0
    THEN JourneyGetUser(js[cur])
    ELSE clientUser

\* the extra argument of captureException: "none" when absent, else the
\* value it gives for every key
CallExtras == {"none", "given"}

\* event.extra = { ...event.extra, ...extra } of captureException: a new
\* object, made only when the call gives an extra
MergeExtra(field, callExtra) ==
    IF callExtra = "none"
    THEN field
    ELSE [ref |-> "copy", val |-> [k \in DOMAIN field.val |-> callExtra]]

\* what a reader of an object-valued field of an event sees
ReadField(field, clientTags, clientExtra) ==
    CASE field.ref = "tags"  -> clientTags
      [] field.ref = "extra" -> clientExtra
      [] OTHER               -> field.val

\* what a reader of event.user sees: 0 for undefined, else the id of the
\* User object the event points to
ReadUser(ref, objs) == IF ref = 0 THEN "none" ELSE objs[ref].id

\* what a reader of user, tags and extra of an event sees
ReadContext(ev, objs, clientTags, clientExtra) ==
    [user  |-> ReadUser(ev.user, objs),
     tags  |-> ReadField(ev.tags, clientTags, clientExtra),
     extra |-> ReadField(ev.extra, clientTags, clientExtra)]

\* createEvent(), then the merge of captureException: user, tags, extra and
\* journey of the new event.  `seen` is history: the current journey, its user
\* and the client's user when the event was built; `asBuilt` is history, what
\* a reader of the event saw when it was built
CreateContextEvent(js, cur, objs, clientUser, clientTags, clientExtra, callExtra) ==
    LET ev == [user  |-> EventUser(js, cur, clientUser),
               tags  |-> Spread(clientTags, "tags"),
               extra |-> MergeExtra(Spread(clientExtra, "extra"), callExtra),
               journey |-> cur]
    IN  [user |-> ev.user, tags |-> ev.tags, extra |-> ev.extra, journey |-> ev.journey,
         seen |-> [journey |-> cur,
                   journeyUser |-> IF cur = 0 THEN 0 ELSE JourneyGetUser(js[cur]),
                   clientUser |-> clientUser],
         asBuilt |-> ReadContext(ev, objs, clientTags, clientExtra)]

(***************************************************************************)
(* SpecContext: one TelemetryClient whose user, tags and extra are set and *)
(* cleared while events are built in between.                              *)
(***************************************************************************)
\* number of User objects allocated by setUser calls
MaxUsers == 2
\* number of startJourney calls, so that scopes overlap
MaxScopes == 2

InitContext ==
    /\ QueueConstructed(0, [state |-> "absent", items |-> <<>>], "ok")
    /\ CrumbsConstructed(0)
    /\ ClientIdle
    /\ TransportIdle
    /\ NoJourneys
    /\ NoContextSet
    /\ NoTracks

\* client.setUser(id, email, data)
SetUser ==
    /\ Len(userObjects) < MaxUsers
    /\ \E id \in UserIds :
          /\ userObjects' = ClientSetUser(userObjects, user, id).objects
          /\ user' = ClientSetUser(userObjects, user, id).user
    /\ UNCHANGED <<queueVars, crumbVars, clientVars, transportVars, trackVars, journeyVars, tags, extra>>

\* client.clearUser()
ClearUser ==
    /\ user' = 0
    /\ UNCHANGED <<queueVars, crumbVars, clientVars, transportVars, trackVars, journeyVars>>
    /\ UNCHANGED <<userObjects, tags, extra>>

\* client.setTag(key, value)
SetTag ==
    /\ \E k \in ContextKeys, v \in ContextValues : tags' = SetKey(tags, k, v)
    /\ UNCHANGED <<queueVars, crumbVars, clientVars, transportVars, trackVars, journeyVars>>
    /\ UNCHANGED <<userObjects, user, extra>>

\* client.setExtra(key, value)
SetExtra ==
    /\ \E k \in ContextKeys, v \in ContextValues : extra' = SetKey(extra, k, v)
    /\ UNCHANGED <<queueVars, crumbVars, clientVars, transportVars, trackVars, journeyVars>>
    /\ UNCHANGED <<userObjects, user, tags>>

\* client.startJourney(name), also while an earlier journey is current
StartJourneyAgain == StartJourneyUpTo(MaxScopes)

\* scope.getJourney().setUser(id, email, data) on any journey the caller holds
SetJourneyUser ==
    /\ Len(userObjects) < MaxUsers
    /\ \E j \in 1..Len(journeys), id \in UserIds :
          /\ userObjects' = NewUser(userObjects, id)
          /\ journeys' = [journeys EXCEPT ![j] = JourneySetUser(@, Len(userObjects) + 1)]
    /\ UNCHANGED <<queueVars, crumbVars, clientVars, transportVars, trackVars, currentJourney, built>>
    /\ UNCHANGED <<user, tags, extra>>

\* captureException(error, extra) / captureMessage up to the call of sendEvent
BuildContextEvent ==
    /\ Len(built) < MaxBuilt
    /\ \E callExtra \in CallExtras :
          built' = Append(built,
                          CreateContextEvent(journeys, currentJourney, userObjects,
                                             user, tags, extra, callExtra))
    /\ UNCHANGED <<queueVars, crumbVars, clientVars, transportVars, contextVars, trackVars>>
    /\ UNCHANGED <<journeys, currentJourney>>

NextContext ==
    \/ SetUser
    \/ ClearUser
    \/ SetTag
    \/ SetExtra
    \/ BuildContextEvent

SpecContext == InitContext /\ [][NextContext]_vars

(***************************************************************************)
(* SpecUser: one TelemetryClient whose user is set and cleared, on which   *)
(* a journey is started, given a user of its own and disposed, and on      *)
(* which events are built in between.                                      *)
(***************************************************************************)
NextUser ==
    \/ SetUser
    \/ ClearUser
    \/ StartJourney
    \/ SetJourneyUser
    \/ DisposeJourneyScope
    \/ BuildContextEvent

SpecUser == InitContext /\ [][NextUser]_vars

(***************************************************************************)
(* SpecClientUser: one TelemetryClient whose user is set and cleared       *)
(* before and while a journey is current; nothing calls Journey.setUser,   *)
(* so a journey's user is only ever the copy startJourney made.            *)
(***************************************************************************)
NextClientUser ==
    \/ SetUser
    \/ ClearUser
    \/ StartJourney
    \/ DisposeJourneyScope
    \/ BuildContextEvent

SpecClientUser == InitContext /\ [][NextClientUser]_vars

(***************************************************************************)
(* SpecStale: one TelemetryClient on which startJourney is called again    *)
(* while the scope of an earlier journey has not been disposed yet; every  *)
(* scope is disposed at some point, in any order, and events are built in  *)
(* between.                                                                *)
(***************************************************************************)
NextStale ==
    \/ StartJourneyAgain
    \/ CompleteJourney
    \/ FailJourney
    \/ DisposeJourneyScope
    \/ BuildContextEvent

SpecStale == InitContext /\ [][NextStale]_vars

(***************************************************************************)
(* SpecOverlap: a client with a queue whose timer fires, or whose flush()  *)
(* is called, while an earlier invocation of processQueue is suspended on  *)
(* its probe or on a send.                                                 *)
(***************************************************************************)
\* number of processQueue invocations explored when they overlap
MaxOverlap == 2

\* some invocation of processQueue is suspended at an await
DrainSuspended == \E k \in 1..Len(drains) : drains[k].pc \in {"probing", "sending"}

\* the setInterval callback firing while a drain is suspended
TimerTickDuringDrain ==
    /\ timerOn
    /\ DrainSuspended
    /\ Len(drains) < MaxOverlap
    /\ drains' = Append(drains, DrainCall(queueEnabled, queue))
    /\ tickedClosed' = (tickedClosed \/ closed)
    /\ UNCHANGED <<queueVars, crumbVars, sampleRate, hookKind, queueEnabled, timerOn, captures>>
    /\ UNCHANGED <<closed, transportVars, journeyVars, contextVars, trackVars>>

\* flush() called while a drain is suspended
FlushDuringDrain ==
    /\ DrainSuspended
    /\ Len(drains) < MaxOverlap
    /\ drains' = Append(drains, DrainCall(queueEnabled, queue))
    /\ UNCHANGED <<queueVars, crumbVars, sampleRate, hookKind, queueEnabled, timerOn, captures>>
    /\ UNCHANGED <<closed, tickedClosed, transportVars, journeyVars, contextVars, trackVars>>

NextOverlap ==
    \/ TimerTick
    \/ Flush
    \/ TimerTickDuringDrain
    \/ FlushDuringDrain
    \/ DrainProbeDone
    \/ DrainSendDone

SpecOverlap == InitLive /\ [][NextOverlap]_vars

(***************************************************************************)
(* trackStep and trackStepAsync (index.ts).  A track record holds the      *)
(* position of one call: "running" while fn runs (for trackStepAsync,      *)
(* while its promise is pending), then "returned" or "threw".  `fnCalls`   *)
(* counts the invocations of fn, `started` tells whether startStep         *)
(* returned a step, `step` is that step as (journey, position), `outcome`  *)
(* is what the caller gets and `endStatus` the status of the step when the *)
(* call ended; all but pc and step are history.                            *)
(***************************************************************************)
\* number of trackStep / trackStepAsync calls explored
MaxTracks == 1

\* if (!globalClient) return fn(); fn is running, no step is started
TrackWithoutClient ==
    [pc |-> "running", started |-> FALSE, step |-> <<0, 0>>, fnCalls |-> 1,
     outcome |-> "pending", endStatus |-> "none"]

\* startStep(name, category) threw 'No active journey': the error leaves
\* trackStep before its try block, fn is not invoked
TrackStartStepThrew ==
    [pc |-> "threw", started |-> FALSE, step |-> <<0, 0>>, fnCalls |-> 0,
     outcome |-> "startStepError", endStatus |-> "none"]

\* startStep returned the scope of a new step; fn is running inside try
TrackStarted(j, n) ==
    [pc |-> "running", started |-> TRUE, step |-> <<j, n>>, fnCalls |-> 1,
     outcome |-> "pending", endStatus |-> "none"]

\* fn returned: step[Symbol.dispose](); return result
TrackReturned(t, status) ==
    [t EXCEPT !.pc = "returned", !.outcome = "fnResult", !.endStatus = status]

\* fn threw: step.getStep().fail(); throw error
TrackThrew(t, status) ==
    [t EXCEPT !.pc = "threw", !.outcome = "fnError", !.endStatus = status]

(***************************************************************************)
(* SpecTrack: the module-level API with or without a global client.  With  *)
(* one, a journey is started, ended and disposed, and trackStep is called  *)
(* with or without a current journey; while fn runs the journey and its    *)
(* steps go on changing (fn itself may do that, and so may other tasks     *)
(* while the promise of trackStepAsync is pending).                        *)
(***************************************************************************)
InitTrack ==
    /\ QueueConstructed(0, [state |-> "absent", items |-> <<>>], "ok")
    /\ CrumbsConstructed(0)
    /\ ClientIdle
    /\ TransportIdle
    /\ NoJourneys
    /\ NoContextSet
    /\ globalClient \in BOOLEAN
    /\ tracks = <<>>

\* startJourney(name) of the module: throws when there is no global client
GlobalStartJourney ==
    /\ globalClient
    /\ StartJourney

\* trackStep(name, fn) / trackStepAsync(name, fn) up to the invocation of fn
TrackStepCall ==
    /\ Len(tracks) < MaxTracks
    /\ IF ~globalClient
       THEN /\ tracks' = Append(tracks, TrackWithoutClient)
            /\ UNCHANGED journeys
       ELSE IF currentJourney = 0
       THEN /\ tracks' = Append(tracks, TrackStartStepThrew)
            /\ UNCHANGED journeys
       ELSE /\ StepsStarted(journeys) < MaxSteps
            /\ journeys' = [journeys EXCEPT
                   ![currentJourney] = JourneyStartStep(@, Len(@.steps) + 1)]
            /\ tracks' = Append(tracks,
                   TrackStarted(currentJourney, Len(journeys[currentJourney].steps) + 1))
    /\ UNCHANGED <<queueVars, crumbVars, clientVars, transportVars, contextVars>>
    /\ UNCHANGED <<currentJourney, built, globalClient>>

\* fn returns (its promise is fulfilled): the step scope is disposed and the
\* result returned
TrackStepFnReturns ==
    \E i \in 1..Len(tracks) :
       /\ tracks[i].pc = "running"
       /\ IF tracks[i].started
          THEN LET j == tracks[i].step[1]
                   n == tracks[i].step[2]
               IN  /\ journeys' = [journeys EXCEPT ![j].steps[n] = StepScopeDispose(@)]
                   /\ tracks' = [tracks EXCEPT ![i] =
                         TrackReturned(@, StepScopeDispose(journeys[j].steps[n]).status)]
          ELSE /\ tracks' = [tracks EXCEPT ![i] = TrackReturned(@, "none")]
               /\ UNCHANGED journeys
       /\ UNCHANGED <<queueVars, crumbVars, clientVars, transportVars, contextVars>>
       /\ UNCHANGED <<currentJourney, built, globalClient>>

\* fn throws (its promise is rejected): the step is failed and the error
\* rethrown
TrackStepFnThrows ==
    \E i \in 1..Len(tracks) :
       /\ tracks[i].pc = "running"
       /\ IF tracks[i].started
          THEN LET j == tracks[i].step[1]
                   n == tracks[i].step[2]
               IN  /\ journeys' = [journeys EXCEPT ![j].steps[n] = StepFail(@)]
                   /\ tracks' = [tracks EXCEPT ![i] =
                         TrackThrew(@, StepFail(journeys[j].steps[n]).status)]
          ELSE /\ tracks' = [tracks EXCEPT ![i] = TrackThrew(@, "none")]
               /\ UNCHANGED journeys
       /\ UNCHANGED <<queueVars, crumbVars, clientVars, transportVars, contextVars>>
       /\ UNCHANGED <<currentJourney, built, globalClient>>

NextTrack ==
    \/ GlobalStartJourney
    \/ StartStep
    \/ CompleteJourney
    \/ FailJourney
    \/ DisposeJourneyScope
    \/ TrackStepCall
    \/ TrackStepFnReturns
    \/ TrackStepFnThrows

SpecTrack == InitTrack /\ [][NextTrack]_vars

(***************************************************************************)
(* C1: in every reachable state of an OfflineQueue of capacity M >= 0,     *)
(* from construction on, the queue holds at most M events.                 *)
(***************************************************************************)
C1_QueueBounded == Len(queue) <= maxSize

(***************************************************************************)
(* C2: for every capacity N >= 0 and every sequence of add/addBreadcrumb   *)
(* calls, getAll() has length <= N and equals the last min(N, number       *)
(* added since the last clear) breadcrumbs, in insertion order.            *)
(***************************************************************************)
C2_CrumbsLastN ==
    /\ Len(CrumbsGetAll) <= maxBreadcrumbs
    /\ CrumbsGetAll = LastN(added, Min(maxBreadcrumbs, Len(added)))

\* the same statement for capacities N >= 1
C2_CrumbsLastNPositiveCap ==
    maxBreadcrumbs >= 1 => C2_CrumbsLastN

(***************************************************************************)
(* C3: starting from an empty queue, after K > M enqueues into a queue of  *)
(* capacity M the queue is exactly the M most recently enqueued events in  *)
(* enqueue order (holding after every one of the enqueues, this says that  *)
(* each overflowing enqueue drops the oldest event and admits the new).    *)
(***************************************************************************)
C3_KeepsNewestM ==
    (onlyEnq /\ Len(enqLog) > maxSize) => queue = LastN(enqLog, maxSize)

\* the same statement for capacities M >= 1
C3_KeepsNewestMPositiveCap ==
    maxSize >= 1 => C3_KeepsNewestM

\* a processQueue invocation that found the collector online and has returned
FinishedOnline(d) == d.pc = "done" /\ d.path = "online"

\* the event was never passed to enqueue and is neither queued nor persisted
NeverQueued(e) ==
    /\ \A i \in 1..Len(enqLog) : enqLog[i].eventId # e.eventId
    /\ \A i \in 1..Len(queue) : queue[i].eventId # e.eventId
    /\ \A i \in 1..Len(store.items) : store.items[i].eventId # e.eventId

(***************************************************************************)
(* C4: an online drain over a queue of K events whose sends succeed for    *)
(* exactly the events in S removes exactly the events in S: it removes no  *)
(* event outside S, no event of S is left, and when nothing else changed   *)
(* the queue meanwhile the queue is the snapshot without S, in the         *)
(* snapshot's order.                                                       *)
(***************************************************************************)
C4_DrainRemovesExactlyS ==
    \A k \in 1..Len(drains) :
       LET d == drains[k] IN
       FinishedOnline(d) =>
          /\ d.removed \subseteq Succeeded(d)
          /\ \A e \in Succeeded(d) : e \notin Range(queue)
          /\ d.alone => queue = SelectSeq(d.snap, LAMBDA e : e \notin Succeeded(d))

\* a drain over at least two events ended with a strict, non-empty subset sent
\* and an event that failed still queued ahead of where a sent one was
C4_Witness ==
    \E k \in 1..Len(drains) :
       LET d == drains[k] IN
       /\ FinishedOnline(d)
       /\ d.alone
       /\ Len(d.snap) >= 2
       /\ d.outcomes[1] = FALSE
       /\ d.outcomes[2] = TRUE
       /\ queue # <<>>

(***************************************************************************)
(* C5: during one online drain transport.send is attempted exactly once    *)
(* for every event of the snapshot, in queue (FIFO) order; a failed send   *)
(* neither ends the attempts for the later events nor keeps an event       *)
(* whose send succeeded in the queue.                                      *)
(***************************************************************************)
C5_DrainAttemptsAllInOrder ==
    \A k \in 1..Len(drains) :
       LET d == drains[k] IN
       /\ d.attempts = SubSeq(d.snap, 1, Len(d.attempts))
       /\ d.pc = "sending" => Len(d.attempts) = Len(d.outcomes) + 1
       /\ FinishedOnline(d) =>
             /\ d.attempts = d.snap
             /\ Len(d.outcomes) = Len(d.snap)
             /\ \A i \in 1..Len(d.outcomes) :
                   d.outcomes[i] => d.attempts[i] \notin Range(queue)

\* a drain whose first send failed went on to send the second event, which
\* succeeded
C5_Witness ==
    \E k \in 1..Len(drains) :
       LET d == drains[k] IN
       /\ FinishedOnline(d)
       /\ Len(d.snap) >= 2
       /\ d.outcomes[1] = FALSE
       /\ d.outcomes[Len(d.outcomes)] = TRUE
       /\ d.attempts[1] \in Range(queue)

\* the calls a drain has made: none when the queue was empty at the call, no
\* send when the probe answered offline
C6_NoCallsWhenEmptyOrOffline ==
    \A k \in 1..Len(drains) :
       LET d == drains[k] IN
       /\ d.emptyAtCall => (~d.probed /\ d.attempts = <<>> /\ d.pc = "done")
       /\ d.path = "offline" => (d.attempts = <<>> /\ d.pc = "done")

\* the step in which a drain learns that the collector is offline
C6_OfflineStep ==
    \A k \in 1..Len(drains) :
       (drains[k].pc = "probing" /\ drains'[k].path = "offline")
          => (queue' = queue /\ store' = store /\ drains'[k].pc = "done")

\* the step in which a drain is called on an empty queue
C6_EmptyCallStep ==
    (Len(drains') = Len(drains) + 1 /\ drains'[Len(drains')].emptyAtCall)
       => (queue' = queue /\ store' = store)

(***************************************************************************)
(* C6: a drain called on an empty queue makes no network call (no          *)
(* isOnline probe, no send); a drain whose probe answers offline makes no  *)
(* send and leaves the in-memory queue and the persisted store as they     *)
(* were.                                                                   *)
(***************************************************************************)
C6_EmptyOrOfflineDrainIsNoOp ==
    /\ []C6_NoCallsWhenEmptyOrOffline
    /\ [][C6_OfflineStep /\ C6_EmptyCallStep]_vars

\* a drain found the collector offline while events were queued
C6_Witness ==
    \E k \in 1..Len(drains) :
       /\ drains[k].path = "offline"
       /\ drains[k].probed
       /\ queue # <<>>
       /\ store = SerializeQueue(queue)

\* a drain was called on an empty queue
C6_WitnessEmpty ==
    \E k \in 1..Len(drains) : drains[k].emptyAtCall /\ queueEnabled

\* with sampleRate 0.0 no capture invokes transport.send
C7_RateZeroNeverSends ==
    sampleRate = 0 => \A c \in 1..Len(captures) : ~captures[c].sent

\* with sampleRate 1.0 no capture is dropped by sampling
C7_RateOneNeverDrops ==
    sampleRate = RateScale =>
       \A c \in 1..Len(captures) :
          /\ captures[c].dropped # "sampling"
          /\ captures[c].hookRet # "false" => captures[c].sent

(***************************************************************************)
(* C7: with sampleRate 0.0 no capture invokes transport.send, whatever the *)
(* draw in [0,1), 0 included; with sampleRate 1.0 no capture is dropped by *)
(* sampling, so transport.send is invoked unless the hook drops the event. *)
(***************************************************************************)
C7_SamplingBoundaries == C7_RateZeroNeverSends /\ C7_RateOneNeverDrops

(***************************************************************************)
(* C8: a capture that is sampled out does not invoke the before-send hook, *)
(* does not invoke transport.send, enqueues and persists nothing, and      *)
(* returns {success: true} without a queued flag.                          *)
(***************************************************************************)
C8_SampledOutIsNoOp ==
    \A c \in 1..Len(captures) :
       captures[c].dropped = "sampling" =>
          /\ captures[c].pc = "done"
          /\ ~captures[c].hookCalled
          /\ ~captures[c].sent
          /\ ~captures[c].enqueued
          /\ NeverQueued(captures[c].event)
          /\ captures[c].result.success
          /\ captures[c].result.queued = "absent"
          /\ captures[c].result.eventId = captures[c].event.eventId

\* a capture was sampled out on a client with a custom hook and queueing on
C8_Witness ==
    \E c \in 1..Len(captures) :
       /\ captures[c].dropped = "sampling"
       /\ hookKind = "custom"
       /\ queueEnabled

(***************************************************************************)
(* C9: when the before-send hook returns false the capture reports         *)
(* success, the event is not enqueued, and transport.send is never called  *)
(* for it.                                                                 *)
(***************************************************************************)
C9_HookFalseDrops ==
    \A c \in 1..Len(captures) :
       captures[c].hookRet = "false" =>
          /\ captures[c].pc = "done"
          /\ captures[c].result.success
          /\ captures[c].result.queued = "absent"
          /\ ~captures[c].sent
          /\ ~captures[c].enqueued
          /\ NeverQueued(captures[c].event)

\* the hook returned false for a built event on a client with queueing on
C9_Witness ==
    \E c \in 1..Len(captures) :
       /\ captures[c].hookRet = "false"
       /\ captures[c].hookCalled
       /\ queueEnabled

\* what a capture whose send has resolved returned and enqueued
C10_Results ==
    \A c \in 1..Len(captures) :
       LET r == captures[c] IN
       (r.pc = "done" /\ r.sent) =>
          /\ (~r.tresult.success /\ queueEnabled) =>
                /\ r.enqueued
                /\ ~r.result.success
                /\ r.result.queued = "true"
                /\ r.result.error = r.tresult.error
                /\ \E i \in 1..Len(enqLog) : enqLog[i] = r.toSend
          /\ (~r.tresult.success /\ ~queueEnabled) =>
                /\ r.result = r.tresult
                /\ ~r.enqueued
                /\ NeverQueued(r.toSend)
          /\ r.tresult.success =>
                /\ r.result = r.tresult
                /\ ~r.enqueued
                /\ NeverQueued(r.toSend)

\* the step in which transport.send resolves for a capture
C10_ReturnStep ==
    \A c \in 1..Len(captures) :
       (captures[c].pc = "sending" /\ captures'[c].pc = "done") =>
          IF captures'[c].enqueued
          THEN /\ queue' # <<>>
               /\ queue'[Len(queue')] = captures[c].toSend
               /\ Len(queue') >= Len(queue)
               /\ storageMode = "ok" => store' = SerializeQueue(queue')
          ELSE /\ queue' = queue
               /\ store' = store
               /\ timerOn' = timerOn

(***************************************************************************)
(* C10: when transport.send fails for a captured event, with offline       *)
(* queueing enabled the event is appended to the queue and the result has  *)
(* success = false and queued = true; with queueing disabled the           *)
(* transport's failure result is returned unchanged and queue, timer and   *)
(* persisted state are untouched.  When the send succeeds nothing is       *)
(* enqueued.                                                               *)
(***************************************************************************)
C10_FailedSendQueuesOrReturns ==
    /\ []C10_Results
    /\ [][C10_ReturnStep]_vars

\* a failed send was queued and reported as queued
C10_Witness ==
    \E c \in 1..Len(captures) :
       /\ captures[c].pc = "done"
       /\ captures[c].enqueued
       /\ captures[c].result.queued = "true"
       /\ ~captures[c].result.success
       /\ queue # <<>>
       /\ queue[Len(queue)] = captures[c].toSend

\* a failed send on a client without a queue returned the failure as it was
C10_WitnessDisabled ==
    \E c \in 1..Len(captures) :
       /\ captures[c].pc = "done"
       /\ captures[c].sent
       /\ ~captures[c].tresult.success
       /\ ~queueEnabled

\* the result values each outcome of a capture of event e can produce
SentResults(e) ==
    {TransportSend(e, resp) : resp \in {r \in Responses : TransportSend(e, r).success}}
DroppedResults(e) == {DroppedResult(e)}
QueuedResults(e) ==
    {QueuedResult(TransportSend(e, resp)) :
        resp \in {r \in Responses : ~TransportSend(e, r).success}}

(***************************************************************************)
(* C11: the SendResult a capture resolves to tells which outcome occurred: *)
(* the result of a sent event is no value a dropped or a queued capture of *)
(* that event returns, and likewise for dropped and for queued.            *)
(***************************************************************************)
C11_ResultTellsOutcome ==
    \A c \in 1..Len(captures) :
       LET r == captures[c] IN
       r.pc = "done" =>
          /\ (r.sent /\ r.tresult.success) =>
                r.result \notin DroppedResults(r.event) \cup QueuedResults(r.toSend)
          /\ r.dropped # "no" =>
                r.result \notin SentResults(r.event) \cup QueuedResults(r.event)
          /\ r.enqueued =>
                r.result \notin SentResults(r.toSend) \cup DroppedResults(r.event)

\* the queued outcome alone is told apart from the other two
C11_QueuedToldApart ==
    \A c \in 1..Len(captures) :
       LET r == captures[c] IN
       (r.pc = "done" /\ r.enqueued) =>
          r.result \notin SentResults(r.toSend) \cup DroppedResults(r.event)

\* a 2xx response, whatever its body
Is2xx(resp) == resp \in {"2xx_id", "2xx_noid", "2xx_nobody"}

\* every 2xx exchange yields success with the server's id if given, else the
\* client's
C12_SuccessOn2xx ==
    \A i \in 1..Len(exchanges) :
       LET x == exchanges[i] IN
       Is2xx(x.response) =>
          /\ x.result.success
          /\ x.result.eventId =
                IF x.response = "2xx_id" THEN ServerIdOf(x.event) ELSE x.event.eventId

\* every non-2xx response and every network error yields a failure with an
\* error string
C12_FailureOtherwise ==
    \A i \in 1..Len(exchanges) :
       LET x == exchanges[i] IN
       ~Is2xx(x.response) => (~x.result.success /\ x.result.error = "message")

(***************************************************************************)
(* C12: Transport.send maps the exchange to a result: every 2xx response,  *)
(* with or without a JSON body, yields success = true with the server's    *)
(* eventId if given, else the client's; every non-2xx response and every   *)
(* network error yields success = false with an error string.              *)
(***************************************************************************)
C12_SendMapsExchange == C12_SuccessOn2xx /\ C12_FailureOtherwise

\* the same statement for 2xx responses that carry a JSON object
C12_SuccessOn2xxWithJsonBody ==
    \A i \in 1..Len(exchanges) :
       LET x == exchanges[i] IN
       x.response \in {"2xx_id", "2xx_noid"} =>
          /\ x.result.success
          /\ x.result.eventId =
                IF x.response = "2xx_id" THEN ServerIdOf(x.event) ELSE x.event.eventId

\* the positions of the steps of a journey that are in progress
InProgress(jr) == {n \in 1..Len(jr.steps) : jr.steps[n].status = "in_progress"}

(***************************************************************************)
(* C13: in every reachable state, under any sequence of startStep,         *)
(* Step.complete, Step.fail, Journey.complete, Journey.fail and scope      *)
(* disposals, at most one Step of a Journey has status in_progress.        *)
(***************************************************************************)
C13_AtMostOneInProgress ==
    \A j \in 1..Len(journeys) :
       /\ Cardinality(InProgress(journeys[j])) <= 1
       /\ InProgress(journeys[j]) \subseteq {journeys[j].current}

\* a journey with two steps of which the second is in progress
C13_Witness ==
    \E j \in 1..Len(journeys) :
       /\ Len(journeys[j].steps) >= 2
       /\ InProgress(journeys[j]) = {Len(journeys[j].steps)}

\* a step in which startStep runs on journey j while its current step is in
\* progress, and what it leaves
C14_StartStepStep ==
    \A j \in 1..Len(journeys) :
       (/\ Len(journeys'[j].steps) = Len(journeys[j].steps) + 1
        /\ CurrentInProgress(journeys[j]))
       => LET old == journeys[j].current
              new == Len(journeys'[j].steps)
              after == journeys'[j]
          IN  /\ after.steps[old].status = "completed"
              /\ after.steps[old].endedAt # 0
              /\ after.current = new
              /\ InProgress(after) = {new}
              /\ GetContext(journeys', j).currentStep = after.steps[new].name
              /\ after.steps[new].name # after.steps[old].name

(***************************************************************************)
(* C14: startStep called while the current step is in_progress leaves that *)
(* earlier step completed with a non-null end time and makes the new step  *)
(* the journey's current step and its only in_progress step; the snapshot  *)
(* of the journey names the new step as currentStep.                       *)
(***************************************************************************)
C14_SecondStepEndsFirst == [][C14_StartStepStep]_vars

\* 'validate' then 'pay' with nothing in between: the first step is completed
\* with an end time assigned once, the second is current and in progress
C14_Witness ==
    \E j \in 1..Len(journeys) :
       LET jr == journeys[j] IN
       /\ Len(jr.steps) = 2
       /\ jr.steps[1].status = "completed"
       /\ jr.steps[1].endedAt = 1
       /\ ~jr.steps[1].disposed
       /\ jr.steps[2].status = "in_progress"
       /\ jr.current = 2
       /\ GetContext(journeys, j).currentStep = jr.steps[2].name
       /\ ~IsComplete(jr)

\* what a reader of the i-th built event sees now
ReadBuilt(i) == ReadEvent(built[i].breadcrumbs, built[i].journey, journeys)

\* the breadcrumb list, journey id and current step of a built event are
\* the ones it was built with
C15_CopiedFieldsKept ==
    \A i \in 1..Len(built) :
       /\ ReadBuilt(i).breadcrumbs = built[i].asBuilt.breadcrumbs
       /\ ReadBuilt(i).journeyId = built[i].asBuilt.journeyId
       /\ ReadBuilt(i).currentStep = built[i].asBuilt.currentStep

\* the metadata of the journey snapshot of a built event is as it was built
C15_MetadataKept ==
    \A i \in 1..Len(built) : ReadBuilt(i).metadata = built[i].asBuilt.metadata

(***************************************************************************)
(* C15: once an event has been built, its breadcrumb list and its journey  *)
(* snapshot (journeyId, name, currentStep, startedAt, metadata) never      *)
(* change through later addBreadcrumb/clear on the buffer or later         *)
(* startStep/setMetadata/complete/fail on the journey.                     *)
(***************************************************************************)
C15_BuiltEventImmutable == C15_CopiedFieldsKept /\ C15_MetadataKept

\* a disposed journey is complete and a disposed step is not in progress
C16_DisposedNeverActive ==
    \A j \in 1..Len(journeys) :
       /\ journeys[j].disposed => IsComplete(journeys[j])
       /\ \A n \in 1..Len(journeys[j].steps) :
             journeys[j].steps[n].disposed =>
                journeys[j].steps[n].status # "in_progress"

\* the step in which the scope of journey j is disposed
C16_JourneyDisposeStep ==
    \A j \in 1..Len(journeys) :
       (~journeys[j].disposed /\ journeys'[j].disposed) =>
          /\ currentJourney' = 0
          /\ IF IsComplete(journeys[j])
             THEN journeys'[j] = [journeys[j] EXCEPT !.disposed = TRUE]
             ELSE /\ journeys'[j].completed
                  /\ ~journeys'[j].failed
                  /\ InProgress(journeys'[j]) = {}

\* the step in which the scope of a step is disposed
C16_StepDisposeStep ==
    \A h \in LiveSteps :
       LET before == journeys[h[1]].steps[h[2]]
           after  == journeys'[h[1]].steps[h[2]]
       IN  (~before.disposed /\ after.disposed) =>
              IF before.status = "in_progress"
              THEN after.status = "completed" /\ after.endedAt # 0
              ELSE after = [before EXCEPT !.disposed = TRUE]

(***************************************************************************)
(* C16: disposing a JourneyScope completes the journey if it is still      *)
(* active, leaves the status of an already completed or failed journey     *)
(* untouched, and clears the client's current-journey reference; disposing *)
(* a StepScope completes the step if it is still in_progress and leaves an *)
(* already completed or failed step untouched.  After disposal the wrapped *)
(* Journey or Step is never active.                                        *)
(***************************************************************************)
C16_DisposeCompletes ==
    /\ []C16_DisposedNeverActive
    /\ [][C16_JourneyDisposeStep /\ C16_StepDisposeStep]_vars

\* a journey that had failed was disposed and is still failed only, its step
\* was disposed while in progress, and the client has no current journey
C16_Witness ==
    \E j \in 1..Len(journeys) :
       /\ journeys[j].disposed
       /\ journeys[j].failed
       /\ ~journeys[j].completed
       /\ currentJourney = 0
       /\ \E n \in 1..Len(journeys[j].steps) :
             /\ journeys[j].steps[n].disposed
             /\ journeys[j].steps[n].status = "completed"

\* a journey was disposed while active, which completed it and its step
C16_WitnessActive ==
    \E j \in 1..Len(journeys) :
       /\ journeys[j].disposed
       /\ journeys[j].completed
       /\ ~journeys[j].failed
       /\ journeys[j].current # 0
       /\ ~journeys[j].steps[journeys[j].current].disposed
       /\ journeys[j].steps[journeys[j].current].endedAt = 1

\* after close() the timer callback has never run, and a send that is in
\* flight can still resolve
C17_NoTickAfterClose ==
    /\ ~tickedClosed
    /\ closed => ~timerOn
    /\ (closed /\ \E c \in 1..Len(captures) : captures[c].pc = "sending")
          => ENABLED CaptureSendDone
    /\ (closed /\ \E k \in 1..Len(drains) : drains[k].pc = "sending")
          => ENABLED DrainSendDone

\* the step in which close() runs: no send, no drain, queue and store as before
C17_CloseStep ==
    (closed' /\ ~closed) =>
       /\ queue' = queue
       /\ store' = store
       /\ captures' = captures
       /\ drains' = drains

\* a send that resolves after close() has its normal effect: a drain removes
\* the event on success and keeps it on failure, a capture enqueues on failure
C17_ResolveStep ==
    closed =>
       /\ \A k \in 1..Len(drains) :
             (drains[k].pc = "sending" /\ Len(drains'[k].outcomes) = Len(drains[k].outcomes) + 1)
                => LET e == drains[k].events[drains[k].idx] IN
                   IF drains'[k].outcomes[Len(drains'[k].outcomes)]
                   THEN queue' = Remove(queue, e.eventId) /\ store' = SerializeQueue(queue')
                   ELSE queue' = queue /\ store' = store
       /\ \A c \in 1..Len(captures) :
             (captures[c].pc = "sending" /\ captures'[c].pc = "done")
                => IF ~captures'[c].tresult.success /\ queueEnabled
                   THEN queue' = Enqueue(queue, captures[c].toSend, maxSize)
                        /\ store' = SerializeQueue(queue')
                   ELSE queue' = queue /\ store' = store

(***************************************************************************)
(* C17: after close() returns the periodic timer never triggers another    *)
(* drain; close() itself performs no send and leaves the offline queue and *)
(* the persisted store unchanged; sends in flight when close() is called   *)
(* still complete and have their normal effect (removal on success,        *)
(* enqueue on failure).                                                    *)
(***************************************************************************)
C17_CloseCancelsTimerOnly ==
    /\ []C17_NoTickAfterClose
    /\ [][C17_CloseStep /\ C17_ResolveStep]_vars

\* on a closed client with a queue a capture's send and a drain's send are
\* both in flight
C17_Witness ==
    /\ closed
    /\ queueEnabled
    /\ ~timerOn
    /\ \E c \in 1..Len(captures) : captures[c].pc = "sending"
    /\ \E k \in 1..Len(drains) : drains[k].pc = "sending"

\* on a closed client a drain's send succeeded and removed its event
C17_WitnessRemoved ==
    /\ closed
    /\ queueEnabled
    /\ \E k \in 1..Len(drains) :
          /\ drains[k].pc = "done"
          /\ drains[k].removed # {}

C18_DrainedWhenAnswersHaveBodies ==
    (collector = "acceptingWithBody") ~> (queue = <<>> /\ store.items = <<>>)

\* the collector has recovered while events are queued
C18_WitnessRecovered ==
    /\ collector = "acceptingWithBody"
    /\ Len(queue) >= 2
    /\ timerOn

\* a step that is completed or failed keeps its status in the next state
C19_TerminalStep ==
    \A h \in LiveSteps :
       LET before == journeys[h[1]].steps[h[2]]
           after  == journeys'[h[1]].steps[h[2]]
       IN  before.status # "in_progress" => after.status = before.status

\* a step that is completed or failed is never in progress again
C19_NeverInProgressAgainStep ==
    \A h \in LiveSteps :
       LET before == journeys[h[1]].steps[h[2]]
           after  == journeys'[h[1]].steps[h[2]]
       IN  before.status # "in_progress" => after.status # "in_progress"

(***************************************************************************)
(* C19: a Step's status only moves from in_progress to completed or        *)
(* failed, and those two are terminal: once a Step is completed or failed  *)
(* no operation (Step.complete, Step.fail, Journey.complete, Journey.fail, *)
(* startStep, scope disposal, trackStep) changes its status.               *)
(***************************************************************************)
C19_StepStatusTerminal == [][C19_TerminalStep]_vars

\* the weaker statement: no step returns to in_progress
C19_NeverInProgressAgain == [][C19_NeverInProgressAgainStep]_vars

\* the state of a journey as a reader of its flags sees it
JourneyStates(jr) ==
    {st \in {"active", "completed", "failed"} :
        \/ st = "active" /\ ~IsComplete(jr)
        \/ st = "completed" /\ jr.completed
        \/ st = "failed" /\ jr.failed}

\* every journey is in exactly one state
C20_ExactlyOneState ==
    \A j \in 1..Len(journeys) : Cardinality(JourneyStates(journeys[j])) = 1

\* a terminated journey keeps its state in the next state
C20_TerminalStep ==
    \A j \in 1..Len(journeys) :
       IsComplete(journeys[j]) =>
          JourneyStates(journeys'[j]) = JourneyStates(journeys[j])

\* a terminated journey stays terminated
C20_StaysTerminatedStep ==
    \A j \in 1..Len(journeys) : IsComplete(journeys[j]) => IsComplete(journeys'[j])

(***************************************************************************)
(* C20: a Journey is in exactly one of the states active, completed,       *)
(* failed; after any sequence of Journey.complete, Journey.fail and scope  *)
(* disposals it is never both completed and failed, and a terminated       *)
(* journey never changes state.                                            *)
(***************************************************************************)
C20_JourneyStateTerminal ==
    /\ []C20_ExactlyOneState
    /\ [][C20_TerminalStep]_vars

\* the weaker statement: a terminated journey is never active again
C20_StaysTerminated == [][C20_StaysTerminatedStep]_vars

\* journey `after` is journey `before` with its current step, if in progress,
\* ended with `status` and an end time, and every other step as it was
C21_Cascaded(before, after, status) ==
    /\ Len(after.steps) = Len(before.steps)
    /\ after.current = before.current
    /\ \A n \in 1..Len(before.steps) :
          IF n = before.current /\ before.steps[n].status = "in_progress"
          THEN /\ after.steps[n].status = status
               /\ before.steps[n].endedAt = 0
               /\ after.steps[n].endedAt # 0
          ELSE /\ after.steps[n].status = before.steps[n].status
               /\ after.steps[n].endedAt = before.steps[n].endedAt

\* what complete() and fail() would do to each journey as it is now
C21_OnEveryJourney ==
    \A j \in 1..Len(journeys) :
       /\ C21_Cascaded(journeys[j], JourneyComplete(journeys[j]), "completed")
       /\ JourneyComplete(journeys[j]).completed
       /\ C21_Cascaded(journeys[j], JourneyFail(journeys[j]), "failed")
       /\ JourneyFail(journeys[j]).failed

\* the step in which a journey becomes completed, or becomes failed
C21_TerminateStep ==
    \A j \in 1..Len(journeys) :
       /\ (~journeys[j].completed /\ journeys'[j].completed)
             => C21_Cascaded(journeys[j], journeys'[j], "completed")
       /\ (~journeys[j].failed /\ journeys'[j].failed)
             => C21_Cascaded(journeys[j], journeys'[j], "failed")

(***************************************************************************)
(* C21: Journey.complete() on a journey whose current step is in_progress  *)
(* sets that step to completed with an end time and marks the journey      *)
(* completed; Journey.fail() sets it to failed with an end time and marks  *)
(* the journey failed; a current step that is already completed or failed  *)
(* keeps its status and its end time.                                      *)
(***************************************************************************)
C21_TerminateCascades ==
    /\ []C21_OnEveryJourney
    /\ [][C21_TerminateStep]_vars

\* a journey was failed while its step was in progress: the step is failed
\* with an end time assigned once
C21_Witness ==
    \E j \in 1..Len(journeys) :
       LET jr == journeys[j] IN
       /\ jr.failed
       /\ ~jr.completed
       /\ ~jr.disposed
       /\ jr.current # 0
       /\ jr.steps[jr.current].status = "failed"
       /\ jr.steps[jr.current].endedAt = 1
       /\ ~jr.steps[jr.current].disposed

\* a journey was completed after its current step had failed: the step is
\* still failed, with the end time it had
C21_WitnessKept ==
    \E j \in 1..Len(journeys) :
       LET jr == journeys[j] IN
       /\ jr.completed
       /\ ~jr.failed
       /\ jr.current # 0
       /\ jr.steps[jr.current].status = "failed"
       /\ jr.steps[jr.current].endedAt = 1

\* user, tags and extra of every built event read as they did when it was built
C22_BuiltContextKept ==
    \A i \in 1..Len(built) :
       ReadContext(built[i], userObjects, tags, extra) = built[i].asBuilt

\* a step that changes this.user, this.tags or this.extra builds no event and
\* changes what no built event reads
C22_SetterStep ==
    (user' # user \/ tags' # tags \/ extra' # extra) =>
       /\ built' = built
       /\ \A i \in 1..Len(built) :
             ReadContext(built[i], userObjects', tags', extra')
                = ReadContext(built[i], userObjects, tags, extra)

\* the event built next reads the user, tags and extra as they now are
C22_BuildStep ==
    Len(built') = Len(built) + 1 =>
       LET ev == built'[Len(built')] IN
       /\ ev.asBuilt.tags = tags
       /\ ev.asBuilt.extra \in {extra} \cup {[k \in ContextKeys |-> x] : x \in CallExtras}
       /\ currentJourney = 0 => ev.asBuilt.user = ReadUser(user, userObjects)

(***************************************************************************)
(* C22: setTag, setExtra, setUser and clearUser never change the tags,     *)
(* extra or user of an event that was already built; they change only what *)
(* later createEvent calls read.                                           *)
(***************************************************************************)
C22_SettersLeaveBuiltEvents ==
    /\ []C22_BuiltContextKept
    /\ [][C22_SetterStep /\ C22_BuildStep]_vars

\* an event was built with a tag, an extra and a user, and all three have
\* been set to something else on the client since
C22_Witness ==
    \E i \in 1..Len(built) :
       /\ \E k \in ContextKeys :
             /\ built[i].asBuilt.tags[k] \notin {"unset", tags[k]}
             /\ built[i].asBuilt.extra[k] \notin {"unset", extra[k]}
             /\ built[i].extra.val = built[i].asBuilt.extra
       /\ built[i].asBuilt.user # "none"
       /\ user # 0
       /\ built[i].asBuilt.user # ReadUser(user, userObjects)

\* an event was built with a user and the client's user was cleared since
C22_WitnessCleared ==
    \E i \in 1..Len(built) : built[i].asBuilt.user # "none" /\ user = 0

\* the step in which an event is built: its user is the current journey's
\* user when there is a current journey and it has one, else the client's
C23_BuildStep ==
    Len(built') = Len(built) + 1 =>
       LET ev == built'[Len(built')]
           expected == IF currentJourney # 0 /\ journeys[currentJourney].user # 0
                       THEN journeys[currentJourney].user
                       ELSE user
       IN  /\ ev.user = expected
           /\ ev.asBuilt.user = ReadUser(expected, userObjects)
           /\ (currentJourney = 0 /\ user = 0) => ev.asBuilt.user = "none"

(***************************************************************************)
(* C23: the user attached to a built event is the current journey's user   *)
(* when a current journey exists and has a user set, and otherwise the     *)
(* client-level user (none if neither is set).                             *)
(***************************************************************************)
C23_JourneyUserFirst == [][C23_BuildStep]_vars

\* an event was built while the current journey's user and the client's user
\* were two different users: it carries the journey's
C23_Witness ==
    \E i \in 1..Len(built) :
       LET ev == built[i] IN
       /\ ev.seen.journey # 0
       /\ ev.seen.journeyUser # 0
       /\ ev.seen.clientUser # 0
       /\ userObjects[ev.seen.journeyUser].id # userObjects[ev.seen.clientUser].id
       /\ ev.asBuilt.user = userObjects[ev.seen.journeyUser].id

\* an event was built while the current journey had no user: it carries the
\* client's
C23_WitnessFallback ==
    \E i \in 1..Len(built) :
       LET ev == built[i] IN
       /\ ev.seen.journey # 0
       /\ ev.seen.journeyUser = 0
       /\ ev.seen.clientUser # 0
       /\ ev.user = ev.seen.clientUser

\* an event was built after the journey's scope was disposed: it carries the
\* client's user
C23_WitnessNoJourney ==
    \E i \in 1..Len(built) :
       LET ev == built[i] IN
       /\ ev.seen.journey = 0
       /\ journeys # <<>>
       /\ journeys[1].user # 0
       /\ ev.seen.clientUser # 0
       /\ ev.user = ev.seen.clientUser

\* the store holds the JSON text of an array of events
C24_HoldsEvents(st) ==
    /\ st.state = "array"
    /\ \A i \in 1..Len(st.items) :
          /\ st.items[i].origin \in {"built", "hook"}
          /\ st.items[i].timestamp \in {"iso", "isoEpoch"}

\* a queue constructed on the store as it is now: one that does not hold an
\* array of events gives an empty queue
C24_MalformedLoadsEmpty ==
    ~C24_HoldsEvents(store) => Load(store, "ok") = <<>>

\* the same for a store that is absent, is not JSON, is not an array, or
\* holds an item on which deserializeEvent throws
C24_UnreadableLoadsEmpty ==
    (\/ store.state # "array"
     \/ \E i \in 1..Len(store.items) : store.items[i] = NullItem)
       => Load(store, "ok") = <<>>

\* with working storage, when enqueue, remove or clear returns, the persisted
\* array is the in-memory queue
C24_SaveStep ==
    storageMode = "ok" => store' = SerializeQueue(queue')

\* with working storage, a queue constructed after enqueue, remove or clear
\* returned loads the in-memory queue
C24_ReloadStep ==
    storageMode = "ok" => Load(store', "ok") = queue'

\* the same for a queue that holds events with valid dates only
C24_ReloadEventsStep ==
    (storageMode = "ok" /\ \A i \in 1..Len(queue') : queue'[i].timestamp # "invalid")
       => Load(store', "ok") = queue'

\* a failing write leaves the store as it was and the in-memory queue updated
C24_WriteFailureStep ==
    storageMode = "writefails" =>
       /\ store' = store
       /\ IF nextId' = nextId + 1
          THEN queue' # <<>> /\ queue'[Len(queue')].eventId = nextId
          ELSE Len(queue') <= Len(queue)

(***************************************************************************)
(* C24: with working storage, after every enqueue, remove and clear        *)
(* returns, the persisted array equals the in-memory queue (same events,   *)
(* same order) and a queue constructed afterwards loads exactly that       *)
(* sequence; a store that is absent or does not parse to an array of       *)
(* events yields an empty queue without throwing; a storage write failure  *)
(* is never propagated and leaves the in-memory queue updated.             *)
(***************************************************************************)
C24_PersistedQueueFaithful ==
    /\ []C24_MalformedLoadsEmpty
    /\ [][C24_SaveStep /\ C24_ReloadStep /\ C24_WriteFailureStep]_vars

\* what holds: stores the load cannot read give an empty queue, every save
\* persists the queue, events with valid dates are loaded back as they were
C24_PersistedEventsFaithful ==
    /\ []C24_UnreadableLoadsEmpty
    /\ [][C24_SaveStep /\ C24_ReloadEventsStep /\ C24_WriteFailureStep]_vars

\* the event a capture sends and enqueues, by what the hook returned
C25_Results ==
    \A c \in 1..Len(captures) :
       LET r == captures[c] IN
       /\ (r.sent /\ r.hookRet = "event") =>
             /\ r.toSend = Event(r.event.eventId, "hook")
             /\ r.toSend # r.event
             /\ r.enqueued =>
                   /\ \E i \in 1..Len(enqLog) : enqLog[i] = r.toSend
                   /\ \A i \in 1..Len(enqLog) : enqLog[i] # r.event
       /\ (r.sent /\ r.hookRet = "true") =>
             /\ r.toSend = r.event
             /\ r.enqueued => \E i \in 1..Len(enqLog) : enqLog[i] = r.event
       /\ (r.pc = "done" /\ r.sent) =>
             \E resp \in Responses : r.tresult = TransportSend(r.toSend, resp)

\* the step in which the send of a capture resolves with a failure on a client
\* with a queue: the event enqueued and persisted is the one that was sent
C25_EnqueueStep ==
    \A c \in 1..Len(captures) :
       (captures[c].pc = "sending" /\ captures'[c].pc = "done" /\ captures'[c].enqueued) =>
          /\ queue'[Len(queue')] = captures[c].toSend
          /\ captures[c].hookRet = "event" => queue'[Len(queue')].origin = "hook"
          /\ captures[c].hookRet = "true" => queue'[Len(queue')] = captures[c].event
          /\ storageMode = "ok" =>
                store'.items[Len(store'.items)] = SerializeEvent(captures[c].toSend)

(***************************************************************************)
(* C25: when the before-send hook returns a replacement event, that        *)
(* replacement, not the event createEvent built, is the one passed to      *)
(* Transport.send and, on failure with queueing enabled, the one enqueued; *)
(* when the hook returns true the built event itself is used.              *)
(***************************************************************************)
C25_ReplacementIsSent ==
    /\ []C25_Results
    /\ [][C25_EnqueueStep]_vars

\* the hook returned a replacement, its send failed, and the replacement is
\* the newest event of the queue and of the store
C25_Witness ==
    \E c \in 1..Len(captures) :
       /\ captures[c].hookRet = "event"
       /\ captures[c].pc = "done"
       /\ captures[c].enqueued
       /\ queue # <<>>
       /\ queue[Len(queue)] = captures[c].toSend
       /\ queue[Len(queue)].origin = "hook"
       /\ store = SerializeQueue(queue)

\* the hook returned true, the send failed, and the built event is queued
C25_WitnessTrue ==
    \E c \in 1..Len(captures) :
       /\ captures[c].hookRet = "true"
       /\ hookKind = "custom"
       /\ captures[c].enqueued
       /\ queue # <<>>
       /\ queue[Len(queue)] = captures[c].event

\* the step in which the scope of journey j is disposed while another
\* journey, started later, is the current one
C26_StaleDisposeStep ==
    \A j \in 1..Len(journeys) :
       (/\ ~journeys[j].disposed
        /\ journeys'[j].disposed
        /\ currentJourney > j)
       => currentJourney' = currentJourney

\* the step in which an event is built while the scope of the journey
\* started last has not been disposed: the event carries that journey
C26_BuildStep ==
    (/\ Len(built') = Len(built) + 1
     /\ journeys # <<>>
     /\ ~journeys[Len(journeys)].disposed)
    => built'[Len(built')].journey = Len(journeys)

(***************************************************************************)
(* C26: disposing a JourneyScope detaches only its own journey: when       *)
(* startJourney was called again before the first scope is disposed,       *)
(* disposing the first, stale scope leaves the client's current-journey    *)
(* reference at the newer journey, so events captured afterwards still     *)
(* carry the newer journey's context.                                      *)
(***************************************************************************)
C26_StaleDisposeKeepsCurrent == [][C26_StaleDisposeStep /\ C26_BuildStep]_vars

\* what holds: the scope of the current journey itself, when disposed, leaves
\* the client without a current journey
C26_OwnDisposeDetaches ==
    [][\A j \in 1..Len(journeys) :
          (~journeys[j].disposed /\ journeys'[j].disposed /\ currentJourney = j)
             => currentJourney' = 0]_vars

\* the drains that have passed the guard of processQueue and not returned
C27_InProgress == {k \in 1..Len(drains) : drains[k].pc \in {"probing", "sending"}}

\* at most one drain cycle is in progress
C27_OneDrainAtATime == Cardinality(C27_InProgress) <= 1

\* no queued event has two sends in flight
C27_NoTwoSendsInFlight ==
    \A k1, k2 \in 1..Len(drains) :
       (k1 # k2 /\ drains[k1].pc = "sending" /\ drains[k2].pc = "sending")
          => drains[k1].events[drains[k1].idx] # drains[k2].events[drains[k2].idx]

\* no event is delivered by two drains
C27_NoDoubleDelivery ==
    \A k1, k2 \in 1..Len(drains) :
       k1 # k2 => Succeeded(drains[k1]) \cap Succeeded(drains[k2]) = {}

(***************************************************************************)
(* C27: at most one drain cycle is in progress per client at any time: a   *)
(* timer tick or a flush() during a drain that is suspended on a network   *)
(* call does not start sending the same queued events again, so no queued  *)
(* event has two sends in flight at once and no event is delivered twice   *)
(* by overlapping drains.                                                  *)
(***************************************************************************)
C27_SingleDrain ==
    C27_OneDrainAtATime /\ C27_NoTwoSendsInFlight /\ C27_NoDoubleDelivery

\* every event the queue has held, oldest first: the persisted ones, then the
\* enqueued ones
C28_Arrivals == StoredEvents(MaxStored) \o enqLog

\* the queue holds its events in the order in which they arrived
C28_InArrivalOrder ==
    queue = SelectSeq(C28_Arrivals, LAMBDA e : e \in Range(queue))

\* an event enqueued by a capture is in the queue unless a drain sent it
\* successfully or a later enqueue has taken place, which evicts the oldest
\* event of a full queue
C28_NotLost ==
    \A c \in 1..Len(captures) :
       captures[c].enqueued =>
          \/ captures[c].toSend \in Range(queue)
          \/ \E k \in 1..Len(drains) : captures[c].toSend \in Succeeded(drains[k])
          \/ \E i \in 1..(Len(enqLog) - 1) : enqLog[i] = captures[c].toSend

\* a drain has removed only events whose own send succeeded
C28_RemovedOnlySucceeded ==
    \A k \in 1..Len(drains) : drains[k].removed \subseteq Succeeded(drains[k])

\* the step in which a failing capture enqueues, a drain being suspended or
\* not: the event goes to the end, the older events keep their order (the
\* oldest, and no other, is evicted when the queue is full), and the snapshot
\* and position of every drain are as they were
C28_EnqueueStep ==
    \A c \in 1..Len(captures) :
       (/\ captures[c].pc = "sending"
        /\ captures'[c].pc = "done"
        /\ captures'[c].enqueued)
       => /\ queue' # <<>>
          /\ queue'[Len(queue')] = captures[c].toSend
          /\ SubSeq(queue', 1, Len(queue') - 1) =
                IF Len(queue) >= maxSize THEN Shift(queue) ELSE queue
          /\ \A k \in 1..Len(drains) :
                /\ drains'[k].events = drains[k].events
                /\ drains'[k].idx = drains[k].idx
                /\ drains'[k].pc = drains[k].pc

\* the step in which a send of a drain resolves: on success the event sent,
\* and no other, leaves the queue; on failure the queue is as it was
C28_DrainStep ==
    \A k \in 1..Len(drains) :
       (drains[k].pc = "sending" /\ Len(drains'[k].outcomes) = Len(drains[k].outcomes) + 1)
       => LET sent == drains[k].events[drains[k].idx] IN
          IF drains'[k].outcomes[Len(drains'[k].outcomes)]
          THEN queue' = SelectSeq(queue, LAMBDA e : e # sent)
          ELSE queue' = queue

(***************************************************************************)
(* C28: an event enqueued by a failing capture while a drain is suspended  *)
(* on a network call is not lost and not reordered: when that drain        *)
(* finishes the event is still in the queue (unless overflow evicted it),  *)
(* after all older surviving events, and the removals of a drain affect    *)
(* only events whose own send succeeded.                                   *)
(***************************************************************************)
C28_EnqueueDuringDrainKept ==
    /\ [](C28_InArrivalOrder /\ C28_NotLost /\ C28_RemovedOnlySucceeded)
    /\ [][C28_EnqueueStep /\ C28_DrainStep]_vars

\* a capture failed and enqueued while a drain over two events was suspended
\* on its first send, evicting the event being sent from the full queue; the
\* drain has finished: its first send succeeded, its second failed, and the
\* queue holds the second event followed by the captured one
C28_Witness ==
    \E k \in 1..Len(drains), c \in 1..Len(captures) :
       LET d == drains[k] IN
       /\ FinishedOnline(d)
       /\ Len(d.snap) = 2
       /\ captures[c].enqueued
       /\ captures[c].toSend \notin Range(d.snap)
       /\ d.outcomes = <<TRUE, FALSE>>
       /\ d.removed = {}
       /\ queue = <<d.snap[2], captures[c].toSend>>

\* a drain is suspended on its second send after removing the first event,
\* and an event enqueued since its snapshot is the newest of the queue
C28_WitnessSuspended ==
    \E k \in 1..Len(drains), c \in 1..Len(captures) :
       LET d == drains[k] IN
       /\ d.pc = "sending"
       /\ d.idx = 2
       /\ d.removed # {}
       /\ captures[c].enqueued
       /\ captures[c].toSend \notin Range(d.snap)
       /\ queue = <<d.snap[2], captures[c].toSend>>

\* a call that has ended invoked fn exactly once and gave the caller fn's
\* result or fn's error
C29_FnOnce ==
    \A i \in 1..Len(tracks) :
       /\ tracks[i].pc = "running" => tracks[i].fnCalls = 1
       /\ tracks[i].pc = "returned" =>
             (tracks[i].fnCalls = 1 /\ tracks[i].outcome = "fnResult")
       /\ tracks[i].pc = "threw" =>
             (tracks[i].fnCalls = 1 /\ tracks[i].outcome = "fnError")

\* the step started for a call ended completed if fn returned and failed if
\* fn threw
C29_StepOutcome ==
    \A i \in 1..Len(tracks) :
       tracks[i].started =>
          /\ tracks[i].pc = "returned" => tracks[i].endStatus = "completed"
          /\ tracks[i].pc = "threw" => tracks[i].endStatus = "failed"

(***************************************************************************)
(* C29: trackStep(name, fn) and trackStepAsync(name, fn) always invoke fn  *)
(* exactly once and return its result or rethrow its error, whether or not *)
(* a client is initialized and whether or not a journey is active; when a  *)
(* step was started for the call, it ends completed if fn returned and     *)
(* failed if fn threw.                                                     *)
(***************************************************************************)
C29_TrackStepRunsFn == C29_FnOnce /\ C29_StepOutcome

\* what holds: fn runs once and its outcome is the caller's when there is no
\* global client or there is a current journey; a step still in progress when
\* fn ends is completed or failed accordingly
C29_RunsFnUnlessNoJourney ==
    \A i \in 1..Len(tracks) :
       /\ tracks[i].outcome # "startStepError" =>
             /\ tracks[i].fnCalls = 1
             /\ tracks[i].pc = "returned" => tracks[i].outcome = "fnResult"
             /\ tracks[i].pc = "threw" => tracks[i].outcome = "fnError"
       /\ (tracks[i].started /\ tracks[i].pc = "threw") => tracks[i].endStatus = "failed"
       /\ (tracks[i].started /\ tracks[i].pc = "returned") =>
             tracks[i].endStatus \in {"completed", "failed"}

\* a terminated journey holds no step that is in progress
C30_TerminatedHasNoStepInProgress ==
    \A j \in 1..Len(journeys) :
       IsComplete(journeys[j]) => InProgress(journeys[j]) = {}

\* the step in which a journey is completed or failed leaves it without a
\* step in progress
C30_TerminateStep ==
    \A j \in 1..Len(journeys) :
       (~IsComplete(journeys[j]) /\ IsComplete(journeys'[j]))
          => InProgress(journeys'[j]) = {}

(***************************************************************************)
(* C30: a terminated journey (completed or failed) never holds a step with *)
(* status in_progress: after Journey.complete() or Journey.fail() no later *)
(* operation, startStep on that journey included, leaves it with an        *)
(* in_progress step.                                                       *)
(***************************************************************************)
C30_NoStepAfterTermination ==
    /\ []C30_TerminatedHasNoStepInProgress
    /\ [][C30_TerminateStep]_vars

\* what holds: complete() and fail() leave the journey without a step in
\* progress at the moment they return
C30_TerminationEndsSteps == [][C30_TerminateStep]_vars

\* the step in which an event is built: a reader of its user sees the
\* client's user of that moment, nothing when the client has none
C31_BuildStep ==
    Len(built') = Len(built) + 1 =>
       built'[Len(built')].asBuilt.user = ReadUser(user, userObjects)

(***************************************************************************)
(* C31: every event built after setUser(u) carries user u and every event  *)
(* built after clearUser() carries no user, until the next setUser or      *)
(* clearUser call, also while a journey is current.                        *)
(***************************************************************************)
C31_ClientUserReflected == [][C31_BuildStep]_vars

\* the same step when no journey is current, or the current journey was
\* started while the client had no user
C31_UnshadowedBuildStep ==
    (/\ Len(built') = Len(built) + 1
     /\ (currentJourney = 0 \/ journeys[currentJourney].user = 0)) =>
       built'[Len(built')].asBuilt.user = ReadUser(user, userObjects)

\* without a user on the current journey the event carries the client's user
C31_ReflectedWithoutJourneyUser == [][C31_UnshadowedBuildStep]_vars

\* an event built after clearUser() while a journey started under a user
\* was current: it carries that user
C31_ClearedUserStillCarried ==
    \E i \in 1..Len(built) :
       LET ev == built[i] IN
       /\ ev.seen.journey # 0
       /\ ev.seen.journeyUser # 0
       /\ ev.seen.clientUser = 0
       /\ ev.asBuilt.user # "none"

\* an event built after setUser() inside a journey started without a user:
\* it carries the client's user
C31_WitnessInsideJourney ==
    \E i \in 1..Len(built) :
       LET ev == built[i] IN
       /\ ev.seen.journey # 0
       /\ ev.seen.journeyUser = 0
       /\ ev.seen.clientUser # 0
       /\ ev.asBuilt.user = userObjects[ev.seen.clientUser].id

====
